---- MODULE Spec2Model ----
(***************************************************************************)
(* Model of the New API -> EZ-API exporter (package newapi, package        *)
(* schema).  Go strings that the exporter parses (key, group, models,      *)
(* model_limits, allow_ips) are sequences of one-character strings; names  *)
(* and opaque blobs are TLA+ strings.  A nil pointer is the empty tuple    *)
(* and a pointer to v is the one-element tuple <<v>>.                      *)
(***************************************************************************)
EXTENDS Integers, Sequences, FiniteSets, TLC

VARIABLES
    db,        \* the source database snapshot read through the Connector
    client,    \* the calling program: how many Export calls it makes per Exporter, which Exporters it constructs
    now,       \* time.Now() as seen by NewExportResult
    config,    \* Exporter.config, per Exporter
    result,    \* *Exporter.result (the ExportResult the Exporter points to), per Exporter
    pc,        \* position of each Exporter's Export call
    frame,     \* local variables of the running Export call, per Exporter
    fetchLog,  \* Connector calls issued by the running Export call, per Exporter
    returns    \* values returned by the Export calls made so far, per Exporter

vars == <<db, client, now, config, result, pc, frame, fetchLog, returns>>

----------------------------------------------------------------------------
(* Bounds of the model *)

MaxKeyLen == 5

MaxCalls == 2

MaxExpiry == 2

MaxTokens == 2

MaxGroupLen == 4

MaxStatus == 5

\* uint, int and int64 are 64 bits wide in the build; the model keeps their two's
\* complement conversions and scales the word to WordBits bits
WordBits == 3

----------------------------------------------------------------------------
(* Pointers and strings *)

NilPtr == <<>>

Ptr(v) == <<v>>

IsNil(p) == p = <<>>

Deref(p) == p[1]

\* unicode.IsSpace restricted to the characters of the model
IsSpace(c) == c \in {" ", "\n", "\t", "\r"}

RECURSIVE TrimLeft(_)
TrimLeft(s) ==
    IF s # <<>> /\ IsSpace(Head(s)) THEN TrimLeft(Tail(s)) ELSE s

RECURSIVE TrimRight(_)
TrimRight(s) ==
    IF s # <<>> /\ IsSpace(s[Len(s)]) THEN TrimRight(SubSeq(s, 1, Len(s) - 1)) ELSE s

TrimSpace(s) == TrimRight(TrimLeft(s))

\* strings.Split(s, sep) for a one-character separator: n separators give n+1 pieces
RECURSIVE Split(_, _)
Split(s, sep) ==
    IF \E i \in 1..Len(s) : s[i] = sep
    THEN LET i == CHOOSE j \in 1..Len(s) : s[j] = sep /\ \A m \in 1..(j - 1) : s[m] # sep
         IN  <<SubSeq(s, 1, i - 1)>> \o Split(SubSeq(s, i + 1, Len(s)), sep)
    ELSE <<s>>

\* the loop "trim each part, append it when non-empty" shared by the three parsers
RECURSIVE TrimmedNonEmpty(_)
TrimmedNonEmpty(parts) ==
    IF parts = <<>> THEN <<>>
    ELSE LET part == TrimSpace(Head(parts))
         IN  (IF part # <<>> THEN <<part>> ELSE <<>>) \o TrimmedNonEmpty(Tail(parts))

\* parseKeys without the early return for the empty string
parseKeys_noEarlyReturn(key) ==
    LET keys == TrimmedNonEmpty(Split(key, "\n"))
    IN  IF Len(keys) = 0 THEN <<key>> ELSE keys

parseKeys(key) ==
    IF key = <<>> THEN <<>>
    ELSE LET keys == TrimmedNonEmpty(Split(key, "\n"))
         IN  IF Len(keys) = 0 THEN <<key>> ELSE keys

DefaultGroup == <<"d", "e", "f", "a", "u", "l", "t">>

\* parseGroups keeping the segments that are empty after trimming
parseGroups_keepEmpties(group) ==
    IF group = <<>> THEN <<DefaultGroup>>
    ELSE LET parts == Split(group, ",")
         IN  [i \in 1..Len(parts) |-> TrimSpace(parts[i])]

parseGroups(group) ==
    IF group = <<>> THEN <<DefaultGroup>>
    ELSE LET groups == TrimmedNonEmpty(Split(group, ","))
         IN  IF Len(groups) = 0 THEN <<DefaultGroup>> ELSE groups

parseModels(models) ==
    IF models = <<>> THEN <<>>
    ELSE TrimmedNonEmpty(Split(models, ","))

----------------------------------------------------------------------------
(* Enum mappers *)

channelTypeMapping ==
    (0 :> "custom") @@ (1 :> "openai") @@ (2 :> "midjourney") @@ (3 :> "azure") @@
    (4 :> "ollama") @@ (5 :> "midjourney") @@ (6 :> "openai") @@ (7 :> "openai") @@
    (8 :> "custom") @@ (9 :> "openai") @@ (10 :> "openai") @@ (11 :> "palm") @@
    (12 :> "openai") @@ (13 :> "openai") @@ (14 :> "anthropic") @@ (15 :> "baidu") @@
    (16 :> "zhipu") @@ (17 :> "ali") @@ (18 :> "xunfei") @@ (19 :> "360") @@
    (20 :> "openrouter") @@ (21 :> "openai") @@ (22 :> "openai") @@ (23 :> "tencent") @@
    (24 :> "gemini") @@ (25 :> "moonshot") @@ (26 :> "zhipu") @@ (27 :> "perplexity") @@
    (31 :> "lingyiwanwu") @@ (33 :> "aws") @@ (34 :> "cohere") @@ (35 :> "minimax") @@
    (36 :> "suno") @@ (37 :> "dify") @@ (38 :> "jina") @@ (39 :> "cloudflare") @@
    (40 :> "siliconflow") @@ (41 :> "vertex") @@ (42 :> "mistral") @@ (43 :> "deepseek") @@
    (44 :> "mokaai") @@ (45 :> "volcengine") @@ (46 :> "baidu") @@ (47 :> "xinference") @@
    (48 :> "xai") @@ (49 :> "coze") @@ (50 :> "kling") @@ (51 :> "jimeng") @@
    (52 :> "vidu") @@ (53 :> "submodel") @@ (54 :> "doubao") @@ (55 :> "openai") @@
    (56 :> "replicate")

\* MapChannelType deriving ok from the provider type instead of the table lookup
MapChannelType_byType(typeID) ==
    LET t == IF typeID \in DOMAIN channelTypeMapping THEN channelTypeMapping[typeID]
             ELSE "custom"
    IN  <<t, t # "custom">>

\* returns <<provider type, ok>>
MapChannelType(typeID) ==
    IF typeID \in DOMAIN channelTypeMapping
    THEN <<channelTypeMapping[typeID], TRUE>>
    ELSE <<"custom", FALSE>>

MapUserStatus(status) ==
    CASE status = 1 -> "active"
      [] status = 2 -> "suspended"
      [] OTHER -> "suspended"

\* MapTokenStatus without the case for the exhausted code
MapTokenStatus_noExhausted(status) ==
    CASE status = 1 -> "active"
      [] status = 2 -> "disabled"
      [] status = 3 -> "expired"
      [] OTHER -> "disabled"

MapTokenStatus(status) ==
    CASE status = 1 -> "active"
      [] status = 2 -> "disabled"
      [] status = 3 -> "expired"
      [] status = 4 -> "exhausted"
      [] OTHER -> "disabled"

MapChannelStatus(status) ==
    CASE status = 1 -> "active"
      [] status \in {2, 3, 0} -> "disabled"
      [] OTHER -> "disabled"

\* time.Unix(ts, 0) is the instant ts seconds after the epoch
TimestampToTime(ts) ==
    IF ts = -1 \/ ts = 0 THEN NilPtr ELSE Ptr([unix |-> ts])

----------------------------------------------------------------------------
(* Phase A: channel -> providers *)

\* isMultiKeyOf with the comparison off by one
isMultiKeyOf_atLeastOne(keys) == Len(keys) >= 1

isMultiKeyOf(keys) == Len(keys) > 1

\* providerName with Go's 0-based loop index as the suffix
providerName_loopIndex(ch, i, isMultiKey) ==
    IF isMultiKey /\ i > 1 THEN ch.Name \o "-" \o ToString(i - 1) ELSE ch.Name

\* i is the 1-based position of the key (Go's i + 1)
providerName(ch, i, isMultiKey) ==
    IF isMultiKey /\ i > 1 THEN ch.Name \o "-" \o ToString(i) ELSE ch.Name

MaxUint == 2^WordBits - 1

MaxInt == 2^(WordBits - 1) - 1

MinInt == -(2^(WordBits - 1))

\* int(x) for x of type uint: the same bits read as a signed word
UintToInt(x) == IF x > MaxInt THEN x - 2^WordBits ELSE x

providerWeight(ch) ==
    IF ~IsNil(ch.Weight) /\ Deref(ch.Weight) > 0 THEN UintToInt(Deref(ch.Weight))
    ELSE IF ~IsNil(ch.Priority) /\ Deref(ch.Priority) > 0 THEN Deref(ch.Priority)
    ELSE 1

providerPriority(ch) ==
    IF ~IsNil(ch.Priority) /\ Deref(ch.Priority) > 0 THEN Deref(ch.Priority) ELSE 0

providerAutoBan(ch) ==
    IF ~IsNil(ch.AutoBan) THEN Deref(ch.AutoBan) = 1 ELSE TRUE

\* json.Marshal(ch): the snapshot determines every field of the channel
createOriginalBackup(ch) == <<"json", ch>>

typeWarning(ch) ==
    IF ~MapChannelType(ch.Type)[2]
    THEN << <<"unknown type", ch.Name, ch.ID, ch.Type>> >>
    ELSE <<>>

\* NonEmptyPtr accepting a pointer to the empty string
NonEmptyPtr_present(p) == ~IsNil(p)

NonEmptyPtr(p) == ~IsNil(p) /\ Deref(p) # ""

\* the warnings checkUnmappableFields appends, in order
checkUnmappableFields(ch) ==
    (IF ~IsNil(ch.Priority) /\ Deref(ch.Priority) # 0
        THEN << <<"priority", ch.Name, ch.ID, Deref(ch.Priority)>> >> ELSE <<>>)
    \o (IF NonEmptyPtr(ch.ModelMapping)
        THEN << <<"model_mapping", ch.Name, ch.ID>> >> ELSE <<>>)
    \o (IF NonEmptyPtr(ch.StatusCodeMapping)
        THEN << <<"status_code_mapping", ch.Name, ch.ID>> >> ELSE <<>>)
    \o (IF NonEmptyPtr(ch.Setting)
        THEN << <<"custom settings", ch.Name, ch.ID>> >> ELSE <<>>)
    \o (IF NonEmptyPtr(ch.ParamOverride)
        THEN << <<"param_override", ch.Name, ch.ID>> >> ELSE <<>>)
    \o (IF NonEmptyPtr(ch.HeaderOverride)
        THEN << <<"header_override", ch.Name, ch.ID>> >> ELSE <<>>)
    \o (LET groups == parseGroups(ch.Group)
        IN  IF Len(groups) > 1
            THEN << <<"multiple groups", ch.Name, ch.ID, groups, groups[1]>> >> ELSE <<>>)

\* the warnings channelToProviders appends to the result, in order
channelWarnings(ch) == typeWarning(ch) \o checkUnmappableFields(ch)

\* multiKeyIndexOf with Go's 0-based loop index
multiKeyIndexOf_loopIndex(i, isMultiKey) == IF isMultiKey THEN i - 1 ELSE 0

multiKeyIndexOf(i, isMultiKey) == IF isMultiKey THEN i ELSE 0

originalNameOf(ch, isMultiKey) == IF isMultiKey THEN ch.Name ELSE ""

\* channelToProviders backing up, for each provider, the channel with that provider's key
channelToProviders_ownKeyBackup(ch) ==
    LET keys == parseKeys(ch.Key)
        isMultiKey == isMultiKeyOf(keys)
        groups == parseGroups(ch.Group)
    IN  [i \in 1..Len(keys) |->
            [OriginalID    |-> ch.ID,
             Name          |-> providerName(ch, i, isMultiKey),
             Type          |-> MapChannelType(ch.Type)[1],
             BaseURL       |-> IF ~IsNil(ch.BaseURL) THEN Deref(ch.BaseURL) ELSE "",
             APIKey        |-> keys[i],
             Models        |-> parseModels(ch.Models),
             PrimaryGroup  |-> groups[1],
             AllGroups     |-> groups,
             Weight        |-> providerWeight(ch),
             Priority      |-> providerPriority(ch),
             Status        |-> MapChannelStatus(ch.Status),
             AutoBan       |-> providerAutoBan(ch),
             IsMultiKey    |-> isMultiKey,
             MultiKeyIndex |-> multiKeyIndexOf(i, isMultiKey),
             OriginalName  |-> originalNameOf(ch, isMultiKey),
             Original      |-> createOriginalBackup([ch EXCEPT !.Key = keys[i]])]]

\* the slice channelToProviders returns
channelToProviders(ch) ==
    LET keys == parseKeys(ch.Key)
        isMultiKey == isMultiKeyOf(keys)
        groups == parseGroups(ch.Group)
    IN  [i \in 1..Len(keys) |->
            [OriginalID    |-> ch.ID,
             Name          |-> providerName(ch, i, isMultiKey),
             Type          |-> MapChannelType(ch.Type)[1],
             BaseURL       |-> IF ~IsNil(ch.BaseURL) THEN Deref(ch.BaseURL) ELSE "",
             APIKey        |-> keys[i],
             Models        |-> parseModels(ch.Models),
             PrimaryGroup  |-> groups[1],
             AllGroups     |-> groups,
             Weight        |-> providerWeight(ch),
             Priority      |-> providerPriority(ch),
             Status        |-> MapChannelStatus(ch.Status),
             AutoBan       |-> providerAutoBan(ch),
             IsMultiKey    |-> isMultiKey,
             MultiKeyIndex |-> multiKeyIndexOf(i, isMultiKey),
             OriginalName  |-> originalNameOf(ch, isMultiKey),
             Original      |-> createOriginalBackup(ch)]]

----------------------------------------------------------------------------
(* Phase B: users and tokens -> masters and keys *)

userToMaster(user) ==
    [Name             |-> user.Username,
     Group            |-> user.Group,
     Namespaces       |-> <<user.Group>>,
     DefaultNamespace |-> user.Group,
     MaxChildKeys     |-> 10,
     GlobalQPS        |-> 3,
     Status           |-> MapUserStatus(user.Status),
     SourceUserID     |-> user.ID,
     SourceEmail      |-> user.Email]

keyModelLimits(token) ==
    IF token.ModelLimitsEnabled /\ token.ModelLimits # <<>>
    THEN parseModels(token.ModelLimits) ELSE <<>>

\* keyExpiresAt without the guard on the sign, leaving the decision to TimestampToTime
keyExpiresAt_unguarded(token) == TimestampToTime(token.ExpiredTime)

keyExpiresAt(token) ==
    IF token.ExpiredTime > 0 /\ token.ExpiredTime # -1
    THEN TimestampToTime(token.ExpiredTime) ELSE NilPtr

keyAllowIPs(token) ==
    IF ~IsNil(token.AllowIPs) /\ Deref(token.AllowIPs) # <<>>
    THEN LET parts == Split(Deref(token.AllowIPs), ",")
         IN  [i \in 1..Len(parts) |-> TrimSpace(parts[i])]
    ELSE <<>>

keyQuotaLimit(token) ==
    IF ~token.UnlimitedQuota THEN Ptr(token.RemainQuota) ELSE NilPtr

\* keyQuotaUsed set outside the unlimited-quota test
keyQuotaUsed_always(token) == Ptr(token.UsedQuota)

keyQuotaUsed(token) ==
    IF ~token.UnlimitedQuota THEN Ptr(token.UsedQuota) ELSE NilPtr

\* keyMasterRef taking the token's group for the reference
keyMasterRef_group(token, masterRef) == token.Group

keyMasterRef(token, masterRef) == masterRef

tokenToKey(token, masterRef) ==
    [MasterRef               |-> keyMasterRef(token, masterRef),
     OriginalToken           |-> token.Key,
     Group                   |-> token.Group,
     Status                  |-> MapTokenStatus(token.Status),
     Scopes                  |-> <<"chat:*", "completions:*">>,
     Namespaces              |-> <<token.Group>>,
     ModelLimitsEnabled      |-> token.ModelLimitsEnabled,
     UnlimitedQuota          |-> token.UnlimitedQuota,
     OriginalID              |-> token.ID,
     TokenPlaintextAvailable |-> TRUE,
     ModelLimits             |-> keyModelLimits(token),
     ExpiresAt               |-> keyExpiresAt(token),
     AllowIPs                |-> keyAllowIPs(token),
     QuotaLimit              |-> keyQuotaLimit(token),
     QuotaUsed               |-> keyQuotaUsed(token)]

----------------------------------------------------------------------------
(* Phase C: abilities -> bindings *)

\* abilityToBinding ignoring the enabled flag
abilityToBinding_alwaysActive(ab) ==
    [Namespace  |-> ab.Group,
     RouteGroup |-> ab.Group,
     Model      |-> ab.Model,
     Status     |-> "active"]

abilityToBinding(ab) ==
    [Namespace  |-> ab.Group,
     RouteGroup |-> ab.Group,
     Model      |-> ab.Model,
     Status     |-> IF ~ab.Enabled THEN "disabled" ELSE "active"]

----------------------------------------------------------------------------
(* schema.ExportResult and the Exporter *)

Exporters == {"e1", "e2"}

NewExportResult(t) ==
    [Version  |-> "1.0.0",
     Source   |-> [Type |-> "newapi", Version |-> "unknown", ExportedAt |-> t],
     Data     |-> [Providers |-> <<>>, Masters |-> <<>>, Keys |-> <<>>, Bindings |-> <<>>],
     Warnings |-> <<>>]

\* AddWarning putting the message in front of the list
AddWarning_prepend(r, msg) == [r EXCEPT !.Warnings = <<msg>> \o @]

AddWarning(r, msg) == [r EXCEPT !.Warnings = Append(@, msg)]

AddWarnings(r, msgs) == [r EXCEPT !.Warnings = @ \o msgs]

AddProvider(r, p) == [r EXCEPT !.Data.Providers = Append(@, p)]

AddMaster(r, m) == [r EXCEPT !.Data.Masters = Append(@, m)]

\* AddKey putting the key in front of the list
AddKey_prepend(r, k) == [r EXCEPT !.Data.Keys = <<k>> \o @]

AddKey(r, k) == [r EXCEPT !.Data.Keys = Append(@, k)]

AddBinding(r, b) == [r EXCEPT !.Data.Bindings = Append(@, b)]

DefaultExporterConfig == [IncludeTokens |-> TRUE, IncludeAbilities |-> FALSE]

Configs == [IncludeTokens : BOOLEAN, IncludeAbilities : BOOLEAN]

\* the Exporter NewExporter returns: its config and a fresh result
NewExporter(cfg, t) == [config |-> cfg, result |-> NewExportResult(t)]

\* local variables of Export and of the phase functions it calls
EmptyFrame ==
    [channels  |-> <<>>, ci |-> 0, providers |-> <<>>, pi |-> 0,
     users     |-> <<>>, ui |-> 0, masterMap |-> <<>>, master |-> <<>>,
     tokens    |-> <<>>, ti |-> 0,
     abilities |-> <<>>, ai |-> 0]

----------------------------------------------------------------------------
(* Connector: the queries the exporter issues *)

ConnErr == "db error"

GetAllChannels == db.channels

\* Find on a model with a gorm.DeletedAt field selects only the rows not soft-deleted
NotDeleted(row) == IsNil(row.DeletedAt)

\* the raw subquery reads every row of the tokens table
OwnsToken(u) == \E i \in 1..Len(db.tokens) : db.tokens[i].UserID = u.ID

\* GetUsersWithTokens returning every user, with or without a row in the tokens table
GetUsersWithTokens_all == SelectSeq(db.users, NotDeleted)

GetUsersWithTokens ==
    LET Selected(u) == NotDeleted(u) /\ OwnsToken(u) IN SelectSeq(db.users, Selected)

GetTokensByUserID(userID) ==
    LET OfUser(t) == NotDeleted(t) /\ t.UserID = userID IN SelectSeq(db.tokens, OfUser)

GetAllAbilities == db.abilities

\* Logged recording the call in one log shared by all Exporters
Logged_shared(e, op, arg, ok) ==
    [x \in Exporters |-> Append(fetchLog[x], [op |-> op, arg |-> arg, ok |-> ok])]

Logged(e, op, arg, ok) ==
    [fetchLog EXCEPT ![e] = Append(@, [op |-> op, arg |-> arg, ok |-> ok])]

----------------------------------------------------------------------------
(* Export and its return values *)

\* ErrResult handing out the partially filled result with the error
ErrResult_partial(e) == e

\* the *ExportResult an Export call returns with an error: nil
ErrResult(e) == "nil"

\* the *ExportResult an Export call returns on success: e.result itself
OkResult(e) == e

ErrChannels == "failed to export channels: " \o ConnErr

ErrUsers == "failed to export users/tokens: " \o "failed to get users: " \o ConnErr

ErrAbilities == "failed to export abilities: " \o ConnErr

\* "seen" is the content of the returned result at the moment of the return
ReturnRecord(res, err, log, seen) ==
    [res |-> res, err |-> err, log |-> log, seen |-> seen]

\* Export returns (nil, err)
ReturnErr(e, err, log) ==
    /\ returns' = [returns EXCEPT ![e] =
                     Append(@, ReturnRecord(ErrResult(e), err, log, <<>>))]
    /\ pc' = [pc EXCEPT ![e] = "idle"]
    /\ frame' = [frame EXCEPT ![e] = EmptyFrame]
    /\ fetchLog' = [fetchLog EXCEPT ![e] = <<>>]

\* Export returns (e.result, nil)
ReturnOk(e, log) ==
    /\ returns' = [returns EXCEPT ![e] =
                     Append(@, ReturnRecord(OkResult(e), "", log, <<result[e]>>))]
    /\ pc' = [pc EXCEPT ![e] = "idle"]
    /\ frame' = [frame EXCEPT ![e] = EmptyFrame]
    /\ fetchLog' = [fetchLog EXCEPT ![e] = <<>>]

\* the caller calls e.Export()
Export(e) ==
    /\ pc[e] = "idle"
    /\ Len(returns[e]) < client.calls
    /\ pc' = [pc EXCEPT ![e] = "exportChannels"]
    /\ UNCHANGED <<db, client, now, config, result, frame, fetchLog, returns>>

\* exportChannels: the batch fetch
FetchChannels(e) ==
    /\ pc[e] = "exportChannels"
    /\ \/ /\ frame' = [frame EXCEPT ![e].channels = GetAllChannels, ![e].ci = 1]
          /\ fetchLog' = Logged(e, "GetAllChannels", 0, TRUE)
          /\ pc' = [pc EXCEPT ![e] = "channelLoop"]
          /\ UNCHANGED returns
       \/ ReturnErr(e, ErrChannels, Logged(e, "GetAllChannels", 0, FALSE)[e])
    /\ UNCHANGED <<db, client, now, config, result>>

\* ConvertChannel not moving on to the next channel when the channel yields no provider
ConvertChannel_stuck(e) ==
    /\ pc[e] = "channelLoop"
    /\ frame[e].ci <= Len(frame[e].channels)
    /\ LET ch == frame[e].channels[frame[e].ci]
           providers == channelToProviders(ch)
       IN  IF Len(providers) = 0
           THEN UNCHANGED <<result, frame, pc>>
           ELSE /\ result' = [result EXCEPT ![e] = AddWarnings(@, channelWarnings(ch))]
                /\ frame' = [frame EXCEPT ![e].providers = providers, ![e].pi = 1]
                /\ pc' = [pc EXCEPT ![e] = "providerLoop"]
    /\ UNCHANGED <<db, client, now, config, fetchLog, returns>>

\* one iteration of the channel loop up to the call of channelToProviders
ConvertChannel(e) ==
    /\ pc[e] = "channelLoop"
    /\ frame[e].ci <= Len(frame[e].channels)
    /\ LET ch == frame[e].channels[frame[e].ci]
           providers == channelToProviders(ch)
       IN  /\ result' = [result EXCEPT ![e] = AddWarnings(@, channelWarnings(ch))]
           /\ IF Len(providers) = 0
              THEN /\ frame' = [frame EXCEPT ![e].ci = @ + 1]
                   /\ UNCHANGED pc
              ELSE /\ frame' = [frame EXCEPT ![e].providers = providers, ![e].pi = 1]
                   /\ pc' = [pc EXCEPT ![e] = "providerLoop"]
    /\ UNCHANGED <<db, client, now, config, fetchLog, returns>>

\* AppendProvider leaving the inner loop after the first provider of the channel
AppendProvider_firstOnly(e) ==
    /\ pc[e] = "providerLoop"
    /\ result' = [result EXCEPT ![e] = AddProvider(@, frame[e].providers[frame[e].pi])]
    /\ frame' = [frame EXCEPT ![e].providers = <<>>, ![e].pi = 0, ![e].ci = @ + 1]
    /\ pc' = [pc EXCEPT ![e] = "channelLoop"]
    /\ UNCHANGED <<db, client, now, config, fetchLog, returns>>

\* one iteration of the inner loop: e.result.AddProvider(p)
AppendProvider(e) ==
    /\ pc[e] = "providerLoop"
    /\ result' = [result EXCEPT ![e] = AddProvider(@, frame[e].providers[frame[e].pi])]
    /\ IF frame[e].pi = Len(frame[e].providers)
       THEN /\ frame' = [frame EXCEPT ![e].providers = <<>>, ![e].pi = 0, ![e].ci = @ + 1]
            /\ pc' = [pc EXCEPT ![e] = "channelLoop"]
       ELSE /\ frame' = [frame EXCEPT ![e].pi = @ + 1]
            /\ UNCHANGED pc
    /\ UNCHANGED <<db, client, now, config, fetchLog, returns>>

\* ExportChannelsDone entering Phase B without consulting the configuration
ExportChannelsDone_unconditional(e) ==
    /\ pc[e] = "channelLoop"
    /\ frame[e].ci > Len(frame[e].channels)
    /\ pc' = [pc EXCEPT ![e] = "exportUsersAndTokens"]
    /\ frame' = [frame EXCEPT ![e] = EmptyFrame]
    /\ UNCHANGED <<db, client, now, config, result, fetchLog, returns>>

\* exportChannels has returned nil: Export goes on to the next enabled phase
ExportChannelsDone(e) ==
    /\ pc[e] = "channelLoop"
    /\ frame[e].ci > Len(frame[e].channels)
    /\ IF config[e].IncludeTokens
       THEN /\ pc' = [pc EXCEPT ![e] = "exportUsersAndTokens"]
            /\ frame' = [frame EXCEPT ![e] = EmptyFrame]
            /\ UNCHANGED <<fetchLog, returns>>
       ELSE IF config[e].IncludeAbilities
       THEN /\ pc' = [pc EXCEPT ![e] = "exportAbilities"]
            /\ frame' = [frame EXCEPT ![e] = EmptyFrame]
            /\ UNCHANGED <<fetchLog, returns>>
       ELSE ReturnOk(e, fetchLog[e])
    /\ UNCHANGED <<db, client, now, config, result>>

\* exportUsersAndTokens: the batch fetch of the users
FetchUsers(e) ==
    /\ pc[e] = "exportUsersAndTokens"
    /\ \/ /\ frame' = [frame EXCEPT ![e].users = GetUsersWithTokens, ![e].ui = 1]
          /\ fetchLog' = Logged(e, "GetUsersWithTokens", 0, TRUE)
          /\ pc' = [pc EXCEPT ![e] = "userLoop"]
          /\ UNCHANGED returns
       \/ ReturnErr(e, ErrUsers, Logged(e, "GetUsersWithTokens", 0, FALSE)[e])
    /\ UNCHANGED <<db, client, now, config, result>>

\* one iteration of the user loop up to masterMap[user.ID] = master.Name
AppendMaster(e) ==
    /\ pc[e] = "userLoop"
    /\ frame[e].ui <= Len(frame[e].users)
    /\ LET user == frame[e].users[frame[e].ui]
           master == userToMaster(user)
       IN  /\ result' = [result EXCEPT ![e] = AddMaster(@, master)]
           /\ frame' = [frame EXCEPT ![e].master = <<master>>,
                                     ![e].masterMap = (user.ID :> master.Name) @@ @]
    /\ pc' = [pc EXCEPT ![e] = "getTokens"]
    /\ UNCHANGED <<db, client, now, config, fetchLog, returns>>

TokensFailedWarning(user) == <<"failed to get tokens", user.Username, user.ID, ConnErr>>

\* FetchTokens returning the error of the sub-batch fetch instead of continuing
FetchTokens_abort(e) ==
    /\ pc[e] = "getTokens"
    /\ LET user == frame[e].users[frame[e].ui]
           tokens == GetTokensByUserID(user.ID)
       IN  \/ /\ fetchLog' = Logged(e, "GetTokensByUserID", user.ID, TRUE)
              /\ frame' = [frame EXCEPT ![e].tokens = tokens, ![e].ti = 1]
              /\ pc' = [pc EXCEPT ![e] = "tokenLoop"]
              /\ UNCHANGED <<result, returns>>
           \/ /\ ReturnErr(e, ErrUsers, Logged(e, "GetTokensByUserID", user.ID, FALSE)[e])
              /\ UNCHANGED result
    /\ UNCHANGED <<db, client, now, config>>

\* the sub-batch fetch of the current user's tokens
FetchTokens(e) ==
    /\ pc[e] = "getTokens"
    /\ LET user == frame[e].users[frame[e].ui]
           tokens == GetTokensByUserID(user.ID)
       IN  \/ /\ fetchLog' = Logged(e, "GetTokensByUserID", user.ID, TRUE)
              /\ IF Len(tokens) = 0
                 THEN /\ frame' = [frame EXCEPT ![e].ui = @ + 1, ![e].master = <<>>]
                      /\ pc' = [pc EXCEPT ![e] = "userLoop"]
                 ELSE /\ frame' = [frame EXCEPT ![e].tokens = tokens, ![e].ti = 1]
                      /\ pc' = [pc EXCEPT ![e] = "tokenLoop"]
              /\ UNCHANGED result
           \/ /\ fetchLog' = Logged(e, "GetTokensByUserID", user.ID, FALSE)
              /\ result' = [result EXCEPT ![e] = AddWarning(@, TokensFailedWarning(user))]
              /\ frame' = [frame EXCEPT ![e].ui = @ + 1, ![e].master = <<>>]
              /\ pc' = [pc EXCEPT ![e] = "userLoop"]
    /\ UNCHANGED <<db, client, now, config, returns>>

\* one iteration of the token loop: e.result.AddKey(e.tokenToKey(token, master.Name))
AppendKey(e) ==
    /\ pc[e] = "tokenLoop"
    /\ LET token == frame[e].tokens[frame[e].ti]
           master == frame[e].master[1]
       IN  result' = [result EXCEPT ![e] = AddKey(@, tokenToKey(token, master.Name))]
    /\ IF frame[e].ti = Len(frame[e].tokens)
       THEN /\ frame' = [frame EXCEPT ![e].tokens = <<>>, ![e].ti = 0,
                                      ![e].master = <<>>, ![e].ui = @ + 1]
            /\ pc' = [pc EXCEPT ![e] = "userLoop"]
       ELSE /\ frame' = [frame EXCEPT ![e].ti = @ + 1]
            /\ UNCHANGED pc
    /\ UNCHANGED <<db, client, now, config, fetchLog, returns>>

\* ExportUsersDone entering Phase C without consulting the configuration
ExportUsersDone_unconditional(e) ==
    /\ pc[e] = "userLoop"
    /\ frame[e].ui > Len(frame[e].users)
    /\ pc' = [pc EXCEPT ![e] = "exportAbilities"]
    /\ frame' = [frame EXCEPT ![e] = EmptyFrame]
    /\ UNCHANGED <<db, client, now, config, result, fetchLog, returns>>

\* exportUsersAndTokens has returned nil
ExportUsersDone(e) ==
    /\ pc[e] = "userLoop"
    /\ frame[e].ui > Len(frame[e].users)
    /\ IF config[e].IncludeAbilities
       THEN /\ pc' = [pc EXCEPT ![e] = "exportAbilities"]
            /\ frame' = [frame EXCEPT ![e] = EmptyFrame]
            /\ UNCHANGED <<fetchLog, returns>>
       ELSE ReturnOk(e, fetchLog[e])
    /\ UNCHANGED <<db, client, now, config, result>>

\* exportAbilities: the batch fetch
FetchAbilities(e) ==
    /\ pc[e] = "exportAbilities"
    /\ \/ /\ frame' = [frame EXCEPT ![e].abilities = GetAllAbilities, ![e].ai = 1]
          /\ fetchLog' = Logged(e, "GetAllAbilities", 0, TRUE)
          /\ pc' = [pc EXCEPT ![e] = "abilityLoop"]
          /\ UNCHANGED returns
       \/ ReturnErr(e, ErrAbilities, Logged(e, "GetAllAbilities", 0, FALSE)[e])
    /\ UNCHANGED <<db, client, now, config, result>>

\* one iteration of the ability loop
AppendBinding(e) ==
    /\ pc[e] = "abilityLoop"
    /\ frame[e].ai <= Len(frame[e].abilities)
    /\ result' = [result EXCEPT ![e] =
                    AddBinding(@, abilityToBinding(frame[e].abilities[frame[e].ai]))]
    /\ frame' = [frame EXCEPT ![e].ai = @ + 1]
    /\ UNCHANGED <<db, client, now, config, pc, fetchLog, returns>>

\* exportAbilities has returned nil: Export returns e.result
ExportAbilitiesDone(e) ==
    /\ pc[e] = "abilityLoop"
    /\ frame[e].ai > Len(frame[e].abilities)
    /\ ReturnOk(e, fetchLog[e])
    /\ UNCHANGED <<db, client, now, config, result>>

Next ==
    \E e \in Exporters :
        \/ Export(e)
        \/ FetchChannels(e)
        \/ ConvertChannel(e)
        \/ AppendProvider(e)
        \/ ExportChannelsDone(e)
        \/ FetchUsers(e)
        \/ AppendMaster(e)
        \/ FetchTokens(e)
        \/ AppendKey(e)
        \/ ExportUsersDone(e)
        \/ FetchAbilities(e)
        \/ AppendBinding(e)
        \/ ExportAbilitiesDone(e)

----------------------------------------------------------------------------
(* Source snapshots the specifications start from *)

BaseChannel ==
    [ID |-> 1, Type |-> 1, Key |-> <<"a">>, Status |-> 1, Name |-> "acme",
     Weight |-> NilPtr, BaseURL |-> NilPtr, Models |-> <<"m">>, Group |-> <<>>,
     ModelMapping |-> NilPtr, StatusCodeMapping |-> NilPtr, Priority |-> NilPtr,
     AutoBan |-> NilPtr, Setting |-> NilPtr, ParamOverride |-> NilPtr,
     HeaderOverride |-> NilPtr]

\* a multi-key, multi-group channel
MultiChannel ==
    [BaseChannel EXCEPT !.Key = <<"a", "\n", "b">>, !.Group = <<"g", ",", "h">>]

\* a channel of unknown type with unmappable fields
OddChannel ==
    [BaseChannel EXCEPT !.ID = 2, !.Name = "beta", !.Type = 999, !.Priority = Ptr(5),
                        !.ModelMapping = Ptr("{}"), !.Status = 2]

\* a channel whose key column is the empty string
EmptyKeyChannel == [BaseChannel EXCEPT !.ID = 3, !.Name = "gamma", !.Key = <<>>]

BaseUser ==
    [ID |-> 1, Username |-> "alice", Group |-> "default", Status |-> 1,
     Email |-> "alice@example.com", DeletedAt |-> NilPtr]

SecondUser ==
    [BaseUser EXCEPT !.ID = 2, !.Username = "bob", !.Status = 2, !.Group = "vip",
                     !.Email = ""]

\* a user that owns no token
IdleUser == [BaseUser EXCEPT !.ID = 3, !.Username = "carol"]

BaseToken ==
    [ID |-> 1, UserID |-> 1, Key |-> "sk-1", Status |-> 1, ExpiredTime |-> -1,
     RemainQuota |-> 0, UnlimitedQuota |-> TRUE, ModelLimitsEnabled |-> FALSE,
     ModelLimits |-> <<>>, AllowIPs |-> NilPtr, UsedQuota |-> 0, Group |-> "default",
     DeletedAt |-> NilPtr]

TokenVariants ==
    { BaseToken,
      [BaseToken EXCEPT !.ID = 2, !.Key = "sk-2", !.UnlimitedQuota = FALSE,
                        !.RemainQuota = 7, !.UsedQuota = 3, !.ExpiredTime = 9],
      [BaseToken EXCEPT !.ID = 3, !.UserID = 2, !.Key = "sk-3", !.Status = 3,
                        !.UnlimitedQuota = FALSE, !.ExpiredTime = 0, !.Group = ""] }

BaseAbility == [Group |-> "default", Model |-> "m", ChannelID |-> 1, Enabled |-> TRUE]

OffAbility == [BaseAbility EXCEPT !.Group = "vip", !.Enabled = FALSE]

\* sequences over S of length at most n without repetition (a table's rows)
Rows(S, n) ==
    UNION { { r \in [1..k -> S] : \A i, j \in 1..k : i # j => r[i] # r[j] } : k \in 0..n }

KeyAlphabet == {"a", "b", " ", "\n"}

KeyStrings == UNION { [1..n -> KeyAlphabet] : n \in 0..MaxKeyLen }

\* every instance the calling program has constructed with NewExporter is idle
Constructed(instances) ==
    /\ now = 1 + Cardinality(instances)
    /\ \E cfg \in [instances -> Configs] :
        \E t \in [instances -> 1..Cardinality(instances)] :
            /\ \A i, j \in instances : i # j => t[i] # t[j]
            /\ \A i, j \in instances : (i = "e1" /\ j = "e2") => t[i] < t[j]
            /\ config = [e \in Exporters |->
                            IF e \in instances THEN NewExporter(cfg[e], t[e]).config
                            ELSE DefaultExporterConfig]
            /\ result = [e \in Exporters |->
                            IF e \in instances THEN NewExporter(cfg[e], t[e]).result
                            ELSE NewExportResult(0)]
    /\ pc = [e \in Exporters |-> IF e \in instances THEN "idle" ELSE "none"]
    /\ frame = [e \in Exporters |-> EmptyFrame]
    /\ fetchLog = [e \in Exporters |-> <<>>]
    /\ returns = [e \in Exporters |-> <<>>]

\* one Exporter, called up to MaxCalls times, over a small database
Init ==
    /\ db \in [channels  : {<<>>, <<MultiChannel>>, <<OddChannel, EmptyKeyChannel>>},
               users     : {<<BaseUser, SecondUser, IdleUser>>},
               tokens    : Rows(TokenVariants, MaxTokens),
               abilities : {<<>>, <<BaseAbility, OffAbility>>}]
    /\ client = [calls |-> MaxCalls]
    /\ Constructed({"e1"})

Spec == Init /\ [][Next]_vars

\* one Exporter, called once, over one channel with an arbitrary key column
InitKeys ==
    /\ \E key \in KeyStrings :
        db = [channels  |-> <<[BaseChannel EXCEPT !.Key = key]>>,
              users     |-> <<BaseUser>>,
              tokens    |-> <<BaseToken>>,
              abilities |-> <<BaseAbility>>]
    /\ client = [calls |-> 1]
    /\ Constructed({"e1"})
    /\ config["e1"] = [IncludeTokens |-> TRUE, IncludeAbilities |-> TRUE]

SpecKeys == InitKeys /\ [][Next]_vars

\* token rows over the values tokenToKey distinguishes
TokenInputs ==
    { [BaseToken EXCEPT !.ExpiredTime = x, !.UnlimitedQuota = u, !.RemainQuota = q[1],
                        !.UsedQuota = q[2], !.Status = st, !.ModelLimitsEnabled = ml[1],
                        !.ModelLimits = ml[2], !.AllowIPs = ips, !.Group = g] :
        x \in (-2)..MaxExpiry, u \in BOOLEAN, q \in {<<0, 0>>, <<7, 3>>},
        st \in {1, 3, 9},
        ml \in {<<FALSE, <<>> >>, <<TRUE, <<>> >>, <<FALSE, <<"m">> >>,
                 <<TRUE, <<"m", ",", " ", "n">> >>},
        ips \in {NilPtr, Ptr(<<>>), Ptr(<<"1", ",", " ", "2">>)},
        g \in {"", "vip"} }

\* one Exporter, called once, over one user that owns one arbitrary token
InitTokens ==
    /\ \E token \in TokenInputs :
        db = [channels  |-> <<BaseChannel>>,
              users     |-> <<BaseUser>>,
              tokens    |-> <<token>>,
              abilities |-> <<BaseAbility>>]
    /\ client = [calls |-> 1]
    /\ Constructed({"e1"})
    /\ config["e1"] = [IncludeTokens |-> TRUE, IncludeAbilities |-> TRUE]

SpecTokens == InitTokens /\ [][Next]_vars

GroupAlphabet == {"g", "h", " ", ","}

GroupStrings == UNION { [1..n -> GroupAlphabet] : n \in 0..MaxGroupLen }

\* one Exporter, called once, over one two-key channel with an arbitrary group column
InitGroups ==
    /\ \E group \in GroupStrings :
        db = [channels  |-> <<[MultiChannel EXCEPT !.Group = group]>>,
              users     |-> <<BaseUser>>,
              tokens    |-> <<BaseToken>>,
              abilities |-> <<BaseAbility>>]
    /\ client = [calls |-> 1]
    /\ Constructed({"e1"})
    /\ config["e1"] = [IncludeTokens |-> TRUE, IncludeAbilities |-> TRUE]

SpecGroups == InitGroups /\ [][Next]_vars

\* kind-codes around and beyond the table of channel_type.go
TypeCodes == ((-1)..58) \cup {999}

\* one Exporter, called once, over one channel of an arbitrary kind with no, one or two keys
InitTypes ==
    /\ \E t \in TypeCodes : \E key \in {<<>>, <<"a">>, <<"a", "\n", "b">>} :
        db = [channels  |-> <<[BaseChannel EXCEPT !.Type = t, !.Key = key]>>,
              users     |-> <<BaseUser>>,
              tokens    |-> <<BaseToken>>,
              abilities |-> <<BaseAbility>>]
    /\ client = [calls |-> 1]
    /\ Constructed({"e1"})
    /\ config["e1"] = [IncludeTokens |-> TRUE, IncludeAbilities |-> TRUE]

SpecTypes == InitTypes /\ [][Next]_vars

\* the instant of a soft delete
DeletedOnce == Ptr([unix |-> 1])

\* token rows, live and soft-deleted, of alice, bob and carol
OwnedTokens ==
    { BaseToken,
      [BaseToken EXCEPT !.ID = 2, !.Key = "sk-2", !.DeletedAt = DeletedOnce],
      [BaseToken EXCEPT !.ID = 3, !.UserID = 2, !.Key = "sk-3"],
      [BaseToken EXCEPT !.ID = 4, !.UserID = 3, !.Key = "sk-4", !.DeletedAt = DeletedOnce] }

\* one Exporter, called once, over three users, bob live or soft-deleted, and up to
\* MaxTokens token rows
InitUsers ==
    /\ \E gone \in {NilPtr, DeletedOnce} :
        db \in [channels  : {<<BaseChannel>>},
                users     : {<<BaseUser, [SecondUser EXCEPT !.DeletedAt = gone], IdleUser>>},
                tokens    : Rows(OwnedTokens, MaxTokens),
                abilities : {<<BaseAbility>>}]
    /\ client = [calls |-> 1]
    /\ Constructed({"e1"})
    /\ config["e1"] = [IncludeTokens |-> TRUE, IncludeAbilities |-> TRUE]

SpecUsers == InitUsers /\ [][Next]_vars

\* lifecycle codes around and beyond the ones status.go names
StatusCodes == (-1)..MaxStatus

\* one Exporter, called once, over one channel, one user and one token of arbitrary status
InitStatus ==
    /\ \E cs \in StatusCodes : \E us \in StatusCodes : \E ts \in StatusCodes :
        db = [channels  |-> <<[BaseChannel EXCEPT !.Status = cs]>>,
              users     |-> <<[BaseUser EXCEPT !.Status = us]>>,
              tokens    |-> <<[BaseToken EXCEPT !.Status = ts]>>,
              abilities |-> <<BaseAbility>>]
    /\ client = [calls |-> 1]
    /\ Constructed({"e1"})
    /\ config["e1"] = [IncludeTokens |-> TRUE, IncludeAbilities |-> TRUE]

SpecStatus == InitStatus /\ [][Next]_vars

\* *uint: nil or any unsigned word
WeightValues == {NilPtr} \cup { Ptr(w) : w \in 0..MaxUint }

\* *int64: nil or any signed word
PriorityValues == {NilPtr} \cup { Ptr(p) : p \in MinInt..MaxInt }

\* one Exporter, called once, over one two-key channel of arbitrary weight and priority
InitWeights ==
    /\ \E w \in WeightValues : \E p \in PriorityValues :
        db = [channels  |-> <<[MultiChannel EXCEPT !.Weight = w, !.Priority = p]>>,
              users     |-> <<BaseUser>>,
              tokens    |-> <<BaseToken>>,
              abilities |-> <<BaseAbility>>]
    /\ client = [calls |-> 1]
    /\ Constructed({"e1"})
    /\ config["e1"] = [IncludeTokens |-> TRUE, IncludeAbilities |-> TRUE]

SpecWeights == InitWeights /\ [][Next]_vars

\* *string: nil, the empty string or some text
TextValues == {NilPtr, Ptr(""), Ptr("{}")}

\* one Exporter, called once, over one two-key channel with arbitrary unmappable fields
InitFields ==
    /\ \E t \in {1, 999} : \E g \in {<<>>, <<"g", ",", "h">>} :
       \E p \in {NilPtr, Ptr(0), Ptr(MaxInt), Ptr(MinInt)} :
       \E f \in [1..5 -> TextValues] :
        db = [channels  |-> <<[MultiChannel EXCEPT
                                !.Type = t, !.Group = g, !.Priority = p,
                                !.ModelMapping = f[1], !.StatusCodeMapping = f[2],
                                !.Setting = f[3], !.ParamOverride = f[4],
                                !.HeaderOverride = f[5]]>>,
              users     |-> <<BaseUser>>,
              tokens    |-> <<BaseToken>>,
              abilities |-> <<BaseAbility>>]
    /\ client = [calls |-> 1]
    /\ Constructed({"e1"})
    /\ config["e1"] = [IncludeTokens |-> TRUE, IncludeAbilities |-> TRUE]

SpecFields == InitFields /\ [][Next]_vars

\* two Exporters of arbitrary configurations, each called once, their steps interleaved,
\* over one small database
InitPair ==
    /\ db = [channels  |-> <<MultiChannel>>,
             users     |-> <<BaseUser>>,
             tokens    |-> <<BaseToken>>,
             abilities |-> <<BaseAbility>>]
    /\ client = [calls |-> 1]
    /\ Constructed({"e1", "e2"})

SpecPair == InitPair /\ [][Next]_vars

ChannelNames == {"acme", "acme-2", "beta"}

\* one Exporter, called once, over two channels of distinct names with one or two keys each
InitNames ==
    /\ \E n1, n2 \in ChannelNames : \E k1, k2 \in {<<"a">>, <<"a", "\n", "b">>} :
        /\ n1 # n2
        /\ db = [channels  |-> <<[BaseChannel EXCEPT !.Name = n1, !.Key = k1],
                                 [BaseChannel EXCEPT !.ID = 2, !.Name = n2, !.Key = k2]>>,
                 users     |-> <<BaseUser>>,
                 tokens    |-> <<BaseToken>>,
                 abilities |-> <<BaseAbility>>]
    /\ client = [calls |-> 1]
    /\ Constructed({"e1"})
    /\ config["e1"] = [IncludeTokens |-> TRUE, IncludeAbilities |-> TRUE]

SpecNames == InitNames /\ [][Next]_vars

\* a step of the running Export call of e: every repository call returns and every
\* loop body runs to its end
PassStep(e) ==
    \/ FetchChannels(e)
    \/ ConvertChannel(e)
    \/ AppendProvider(e)
    \/ ExportChannelsDone(e)
    \/ FetchUsers(e)
    \/ AppendMaster(e)
    \/ FetchTokens(e)
    \/ AppendKey(e)
    \/ ExportUsersDone(e)
    \/ FetchAbilities(e)
    \/ AppendBinding(e)
    \/ ExportAbilitiesDone(e)

\* one Exporter of arbitrary configuration, called once, over channels with and without
\* warnings and providers, two users with one token each
InitLive ==
    /\ db \in [channels  : {<<OddChannel, EmptyKeyChannel>>, <<MultiChannel, EmptyKeyChannel>>},
               users     : {<<BaseUser, SecondUser, IdleUser>>},
               tokens    : Rows(TokenVariants, MaxTokens),
               abilities : {<<BaseAbility, OffAbility>>}]
    /\ client = [calls |-> 1]
    /\ Constructed({"e1"})

SpecLive == InitLive /\ [][Next]_vars /\ \A e \in Exporters : WF_vars(PassStep(e))

----------------------------------------------------------------------------
(* Vocabulary of the properties: the lines of a key column, stated by position *)

\* positions where a line of the key column starts
LineStarts(key) == { i \in 1..(Len(key) + 1) : i = 1 \/ key[i - 1] = "\n" }

\* positions of the line starting at lo that hold a non-blank character
Ink(key, lo) ==
    { i \in lo..Len(key) : /\ key[i] \notin {" ", "\n", "\t", "\r"}
                           /\ \A j \in lo..i : key[j] # "\n" }

NonBlankStarts(key) == { lo \in LineStarts(key) : Ink(key, lo) # {} }

\* number of non-empty lines of the key column
LineCount(key) == Cardinality(NonBlankStarts(key))

SetMin(S) == CHOOSE x \in S : \A y \in S : x <= y

SetMax(S) == CHOOSE x \in S : \A y \in S : y <= x

\* the i-th non-empty line of the key column, trimmed
Line(key, i) ==
    LET lo == CHOOSE l \in NonBlankStarts(key) :
                  Cardinality({ m \in NonBlankStarts(key) : m < l }) = i - 1
    IN  SubSeq(key, SetMin(Ink(key, lo)), SetMax(Ink(key, lo)))

SourceChannel(id) ==
    db.channels[CHOOSE i \in 1..Len(db.channels) : db.channels[i].ID = id]

\* the pass of e has finished converting the idx-th channel of the batch
Converted(e, idx) ==
    \/ pc[e] = "channelLoop" /\ idx < frame[e].ci
    \/ pc[e] \in {"exportUsersAndTokens", "userLoop", "getTokens", "tokenLoop",
                  "exportAbilities", "abilityLoop"}
    \/ /\ pc[e] = "idle"
       /\ returns[e] # <<>>
       /\ returns[e][Len(returns[e])].log[1].ok

\* the providers of e's result that come from the channel with this id, in result order
ProvidersOf(e, id) ==
    LET From(p) == p.OriginalID = id IN SelectSeq(result[e].Data.Providers, From)

SuffixedName(name, i) == name \o "-" \o ToString(i)

----------------------------------------------------------------------------
(* C1: a channel whose key column has k >= 1 non-empty lines yields exactly k
   providers, in line order; the first keeps the channel name, the i-th (i > 1)
   is named "<name>-<i>", and the i-th carries the i-th trimmed line as api_key. *)
C1_OneProviderPerLine ==
    \A e \in Exporters : \A idx \in 1..Len(db.channels) :
        LET ch == db.channels[idx]
            k == LineCount(ch.Key)
            ps == ProvidersOf(e, ch.ID)
        IN  (Converted(e, idx) /\ k >= 1) =>
                /\ Len(ps) = k
                /\ \A i \in 1..k :
                    /\ ps[i].APIKey = Line(ch.Key, i)
                    /\ ps[i].Name = IF i = 1 THEN ch.Name ELSE SuffixedName(ch.Name, i)

C1_Witness ==
    \E e \in Exporters :
        /\ Converted(e, 1)
        /\ LineCount(db.channels[1].Key) = 3
        /\ Len(result[e].Data.Providers) = 3
        /\ result[e].Data.Providers[2].APIKey = <<"b">>
        /\ result[e].Data.Providers[3].Name = "acme-3"

(* C2: a channel whose key column is empty or holds only whitespace/newlines yields
   exactly one provider, whose api_key is the raw, untrimmed key column. *)
C2_BlankKeyYieldsOneProvider ==
    \A e \in Exporters : \A idx \in 1..Len(db.channels) :
        LET ch == db.channels[idx]
            ps == ProvidersOf(e, ch.ID)
        IN  (Converted(e, idx) /\ LineCount(ch.Key) = 0) =>
                /\ Len(ps) = 1
                /\ ps[1].APIKey = ch.Key

(* C9: a provider has is_multi_key = TRUE exactly when the key column of its channel
   yielded more than one secret. *)
C9_MultiKeyFlag ==
    \A e \in Exporters : \A j \in 1..Len(result[e].Data.Providers) :
        LET p == result[e].Data.Providers[j]
        IN  p.IsMultiKey <=> (LineCount(SourceChannel(p.OriginalID).Key) > 1)

C9_Witness ==
    \E e \in Exporters :
        /\ Len(result[e].Data.Providers) >= 2
        /\ result[e].Data.Providers[1].IsMultiKey
        /\ result[e].Data.Providers[1].Name = "acme"

(* C10: a multi-key provider carries its 1-based position among the channel's secrets
   as multi_key_index and the channel name as original_name; any other provider has
   multi_key_index 0, an empty original_name and the bare channel name. *)
C10_MultiKeyFields ==
    \A e \in Exporters : \A idx \in 1..Len(db.channels) :
        LET ch == db.channels[idx]
            ps == ProvidersOf(e, ch.ID)
        IN  \A j \in 1..Len(ps) :
                IF ps[j].IsMultiKey
                THEN /\ ps[j].MultiKeyIndex = j
                     /\ ps[j].MultiKeyIndex >= 1
                     /\ ps[j].APIKey = Line(ch.Key, ps[j].MultiKeyIndex)
                     /\ ps[j].OriginalName = ch.Name
                ELSE /\ ps[j].MultiKeyIndex = 0
                     /\ ps[j].OriginalName = ""
                     /\ ps[j].Name = ch.Name

C10_Witness ==
    \E e \in Exporters :
        /\ pc[e] = "idle"
        /\ Len(result[e].Data.Providers) = 2
        /\ result[e].Data.Providers[2].MultiKeyIndex = 2
        /\ result[e].Data.Providers[2].OriginalName = "acme"

SourceToken(id) ==
    db.tokens[CHOOSE i \in 1..Len(db.tokens) : db.tokens[i].ID = id]

(* C7: a key has quota_limit and quota_used both set exactly when its token's
   unlimited_quota is false; for an unlimited token both are absent, so no key has
   unlimited_quota = TRUE together with a quota field. *)
C7_QuotaIffLimited ==
    \A e \in Exporters : \A j \in 1..Len(result[e].Data.Keys) :
        LET k == result[e].Data.Keys[j]
            t == SourceToken(k.OriginalID)
        IN  /\ (k.QuotaLimit # NilPtr /\ k.QuotaUsed # NilPtr) <=> ~t.UnlimitedQuota
            /\ t.UnlimitedQuota => (k.QuotaLimit = NilPtr /\ k.QuotaUsed = NilPtr)
            /\ ~(k.UnlimitedQuota /\ (k.QuotaLimit # NilPtr \/ k.QuotaUsed # NilPtr))

C7_Witness ==
    \E e \in Exporters :
        /\ Len(result[e].Data.Keys) = 1
        /\ ~db.tokens[1].UnlimitedQuota
        /\ result[e].Data.Keys[1].QuotaLimit = Ptr(7)
        /\ result[e].Data.Keys[1].QuotaUsed = Ptr(3)

(* C8 as claimed: a token with expired_time in {-1, 0} gives a key without expires_at,
   and a token with any other expired_time, negative ones included, gives a key whose
   expires_at is that value as epoch seconds. *)
C8_ExpiryUnlessSentinel ==
    \A e \in Exporters : \A j \in 1..Len(result[e].Data.Keys) :
        LET k == result[e].Data.Keys[j]
            t == SourceToken(k.OriginalID)
        IN  IF t.ExpiredTime \in {-1, 0}
            THEN k.ExpiresAt = NilPtr
            ELSE k.ExpiresAt = Ptr([unix |-> t.ExpiredTime])

(* C8 amended: a token with expired_time <= 0 gives a key without expires_at, and a
   token with expired_time > 0 gives a key whose expires_at is that value as epoch
   seconds. *)
C8_ExpiryIffPositive ==
    \A e \in Exporters : \A j \in 1..Len(result[e].Data.Keys) :
        LET k == result[e].Data.Keys[j]
            t == SourceToken(k.OriginalID)
        IN  IF t.ExpiredTime <= 0
            THEN k.ExpiresAt = NilPtr
            ELSE k.ExpiresAt = Ptr([unix |-> t.ExpiredTime])

C8_Witness ==
    \E e \in Exporters :
        /\ Len(result[e].Data.Keys) = 1
        /\ db.tokens[1].ExpiredTime = -2
        /\ result[e].Data.Keys[1].ExpiresAt = NilPtr

----------------------------------------------------------------------------
(* Vocabulary of the properties about a whole pass *)

Range(seq) == { seq[i] : i \in 1..Len(seq) }

PrimaryFetches == {"GetAllChannels", "GetUsersWithTokens", "GetAllAbilities"}

\* the entries of a fetch log that record a failed call of one of these operations
FailedIn(log, ops) == { i \in 1..Len(log) : log[i].op \in ops /\ ~log[i].ok }

PhaseError(op) ==
    CASE op = "GetAllChannels" -> "failed to export channels: db error"
      [] op = "GetUsersWithTokens" ->
            "failed to export users/tokens: failed to get users: db error"
      [] op = "GetAllAbilities" -> "failed to export abilities: db error"

\* what a serialised result holds besides source.exported_at
Content(r) == [Version |-> r.Version, Type |-> r.Source.Type, SourceVersion |-> r.Source.Version,
               Data |-> r.Data, Warnings |-> r.Warnings]

(* C3: in every state, every key of a result names as master_ref a master of the same
   result, and the masters of that name come from the user owning the key's token. *)
C3_MasterRefResolves ==
    \A e \in Exporters : \A j \in 1..Len(result[e].Data.Keys) :
        LET k == result[e].Data.Keys[j]
            owner == SourceToken(k.OriginalID).UserID
        IN  /\ \E m \in Range(result[e].Data.Masters) : m.Name = k.MasterRef
            /\ \A m \in Range(result[e].Data.Masters) :
                  m.Name = k.MasterRef => m.SourceUserID = owner

C3_Witness ==
    \E e \in Exporters :
        /\ pc[e] = "getTokens"
        /\ Len(result[e].Data.Masters) = 2
        /\ Len(result[e].Data.Keys) = 1
        /\ result[e].Data.Keys[1].MasterRef = "alice"
        /\ result[e].Data.Masters[2].Name = "bob"

(* C4: any two completed Export passes over the unchanged snapshot with the same
   configuration and the same fetch outcomes, from two Exporters or from one Exporter
   called twice, return results equal in everything but source.exported_at. *)
C4_Idempotent ==
    \A e1 \in Exporters : \A e2 \in Exporters :
        \A i \in 1..Len(returns[e1]) : \A j \in 1..Len(returns[e2]) :
            LET r1 == returns[e1][i]
                r2 == returns[e2][j]
            IN  (r1.err = "" /\ r2.err = "" /\ config[e1] = config[e2] /\ r1.log = r2.log)
                    => Content(r1.seen[1]) = Content(r2.seen[1])

(* C5: when the batch fetch of the channels, of the users or of the abilities fails,
   Export returns at once: that fetch is the last call of the pass, the result
   returned is nil and the error names the phase, whatever the result holds by then;
   a pass still running has had no such failure. *)
C5_PrimaryFailureAborts ==
    \A e \in Exporters :
        /\ FailedIn(fetchLog[e], PrimaryFetches) = {}
        /\ \A n \in 1..Len(returns[e]) :
            LET r == returns[e][n]
            IN  /\ \A i \in FailedIn(r.log, PrimaryFetches) :
                    /\ i = Len(r.log)
                    /\ r.res = "nil"
                    /\ r.seen = <<>>
                    /\ r.err = PhaseError(r.log[i].op)
                /\ (r.err # "") => FailedIn(r.log, PrimaryFetches) # {}

C5_Witness ==
    \E e \in Exporters :
        /\ Len(returns[e]) = 1
        /\ returns[e][1].res = "nil"
        /\ returns[e][1].err = PhaseError("GetAllAbilities")
        /\ Len(result[e].Data.Providers) = 2
        /\ Len(result[e].Data.Keys) = 2

\* the users the users-with-tokens query returns, by the tokens table: the users not
\* soft-deleted whose id occurs in a row of the tokens table
Owners ==
    LET Owns(u) == u.DeletedAt = <<>> /\ \E t \in Range(db.tokens) : t.UserID = u.ID
    IN  SelectSeq(db.users, Owns)

TokenFetches(log) ==
    LET IsTokenFetch(x) == x.op = "GetTokensByUserID" IN SelectSeq(log, IsTokenFetch)

CountIn(seq, P(_)) == Cardinality({ i \in 1..Len(seq) : P(seq[i]) })

\* what a pass that got past the users fetch has done for every user by its return
C6_EveryUserProcessed(r, first) ==
    LET fetches == TokenFetches(r.log)
    IN  /\ Len(fetches) = Len(Owners)
        /\ \A i \in 1..Len(Owners) : fetches[i].arg = Owners[i].ID
        /\ (first /\ r.seen # <<>>) =>
            LET seen == r.seen[1]
            IN  /\ Len(seen.Data.Masters) = Len(Owners)
                /\ \A i \in 1..Len(Owners) :
                    LET u == Owners[i]
                        IsKeyOfU(k) == k.MasterRef = u.Username
                        OwnedByU(t) == t.UserID = u.ID /\ t.DeletedAt = <<>>
                        NamesU(w) == w = <<"failed to get tokens", u.Username, u.ID, "db error">>
                    IN  /\ seen.Data.Masters[i].Name = u.Username
                        /\ CountIn(seen.Data.Keys, IsKeyOfU) =
                              IF fetches[i].ok THEN CountIn(db.tokens, OwnedByU) ELSE 0
                        /\ CountIn(seen.Warnings, NamesU) = IF fetches[i].ok THEN 0 ELSE 1

\* the step in which the fetch of the current user's tokens fails
C6_FailureStep(e) ==
    /\ pc[e] = "getTokens"
    /\ <<pc[e], frame[e], fetchLog[e], result[e], returns[e]>>'
          # <<pc[e], frame[e], fetchLog[e], result[e], returns[e]>>
    /\ pc'[e] # "tokenLoop"

\* what the failing step does: one warning naming the user, nothing else touched, on
\* to the next user, no return
C6_StepEffect(e) ==
    LET user == frame[e].users[frame[e].ui]
    IN  /\ fetchLog'[e] = Append(fetchLog[e],
                                 [op |-> "GetTokensByUserID", arg |-> user.ID, ok |-> FALSE])
        /\ result'[e].Warnings =
              Append(result[e].Warnings,
                     <<"failed to get tokens", user.Username, user.ID, "db error">>)
        /\ result'[e].Data = result[e].Data
        /\ result[e].Data.Masters[Len(result[e].Data.Masters)].SourceUserID = user.ID
        /\ pc'[e] = "userLoop"
        /\ frame'[e].users = frame[e].users
        /\ frame'[e].ui = frame[e].ui + 1
        /\ returns'[e] = returns[e]

(* C6 as claimed: a failed fetch of a user's tokens appends one warning naming the user,
   leaves the user's master without key and everything accumulated unchanged, the
   later users are still processed, and Export returns the result without error. *)
C6_TokenFailureNeverFails ==
    \A e \in Exporters : \A n \in 1..Len(returns[e]) :
        LET r == returns[e][n]
        IN  FailedIn(r.log, {"GetTokensByUserID"}) # {} =>
                /\ C6_EveryUserProcessed(r, n = 1)
                /\ r.err = ""
                /\ r.res = e

(* C6 amended: a failed fetch of a user's tokens appends one warning naming the user,
   leaves the user's master without key and everything accumulated unchanged, the
   later users are still processed, and Export returns the result without error
   unless the abilities fetch of Phase C then fails, in which case it returns that
   error and no result. *)
C6_TokenFailureContinues ==
    /\ [][\A e \in Exporters : C6_FailureStep(e) => C6_StepEffect(e)]_vars
    /\ [](\A e \in Exporters : \A n \in 1..Len(returns[e]) :
            LET r == returns[e][n]
            IN  FailedIn(r.log, {"GetTokensByUserID"}) # {} =>
                    /\ C6_EveryUserProcessed(r, n = 1)
                    /\ IF FailedIn(r.log, {"GetAllAbilities"}) = {}
                       THEN r.err = "" /\ r.res = e
                       ELSE r.err = PhaseError("GetAllAbilities") /\ r.res = "nil")

C6_Witness ==
    \E e \in Exporters :
        /\ Len(returns[e]) = 1
        /\ returns[e][1].err = ""
        /\ TokenFetches(returns[e][1].log) =
              << [op |-> "GetTokensByUserID", arg |-> 1, ok |-> FALSE],
                 [op |-> "GetTokensByUserID", arg |-> 2, ok |-> TRUE] >>
        /\ Len(result[e].Data.Masters) = 2
        /\ Len(result[e].Data.Keys) = 1
        /\ result[e].Data.Keys[1].MasterRef = "bob"

----------------------------------------------------------------------------
(* Vocabulary of the properties: the segments of a group column, stated by position *)

\* positions where a comma-separated segment of the column starts
SegStarts(col) == { i \in 1..(Len(col) + 1) : i = 1 \/ col[i - 1] = "," }

\* positions of the segment starting at lo that hold a non-blank character
SegInk(col, lo) ==
    { i \in lo..Len(col) : /\ col[i] \notin {" ", "\n", "\t", "\r", ","}
                           /\ \A j \in lo..i : col[j] # "," }

NonBlankSegs(col) == { lo \in SegStarts(col) : SegInk(col, lo) # {} }

\* number of segments of the column that are non-empty after trimming
SegCount(col) == Cardinality(NonBlankSegs(col))

\* the i-th non-empty segment of the column, trimmed
Segment(col, i) ==
    LET lo == CHOOSE l \in NonBlankSegs(col) :
                  Cardinality({ m \in NonBlankSegs(col) : m < l }) = i - 1
    IN  SubSeq(col, SetMin(SegInk(col, lo)), SetMax(SegInk(col, lo)))

LiteralDefault == <<"d", "e", "f", "a", "u", "l", "t">>

(* C11: every provider's all_groups is its channel's group column split on commas, each
   segment trimmed, empty segments dropped, in source order; it is never empty, being
   exactly ["default"] when no segment is left; and primary_group is its first element. *)
C11_AllGroupsParsed ==
    \A e \in Exporters : \A j \in 1..Len(result[e].Data.Providers) :
        LET p == result[e].Data.Providers[j]
            col == SourceChannel(p.OriginalID).Group
            n == SegCount(col)
        IN  /\ Len(p.AllGroups) >= 1
            /\ IF n = 0
               THEN p.AllGroups = <<LiteralDefault>>
               ELSE /\ Len(p.AllGroups) = n
                    /\ \A i \in 1..n : p.AllGroups[i] = Segment(col, i)
            /\ p.PrimaryGroup = p.AllGroups[1]

C11_Witness ==
    \E e \in Exporters :
        /\ Len(result[e].Data.Providers) = 2
        /\ db.channels[1].Group = <<" ", "g", ",", "h">>
        /\ result[e].Data.Providers[2].AllGroups = << <<"g">>, <<"h">> >>
        /\ result[e].Data.Providers[2].PrimaryGroup = <<"g">>

SourceUser(id) ==
    db.users[CHOOSE i \in 1..Len(db.users) : db.users[i].ID = id]

(* C12: every group list of a result (a provider's all_groups, a master's namespaces,
   a key's namespaces) is non-empty, and when the group column of the source record is
   empty the list is the single-element list holding the literal "default". *)
C12_GroupListsDefault ==
    \A e \in Exporters :
        /\ \A j \in 1..Len(result[e].Data.Providers) :
              LET p == result[e].Data.Providers[j]
              IN  /\ Len(p.AllGroups) >= 1
                  /\ SourceChannel(p.OriginalID).Group = <<>>
                        => p.AllGroups = <<LiteralDefault>>
        /\ \A j \in 1..Len(result[e].Data.Masters) :
              LET m == result[e].Data.Masters[j]
              IN  /\ Len(m.Namespaces) >= 1
                  /\ SourceUser(m.SourceUserID).Group = "" => m.Namespaces = <<"default">>
        /\ \A j \in 1..Len(result[e].Data.Keys) :
              LET k == result[e].Data.Keys[j]
              IN  /\ Len(k.Namespaces) >= 1
                  /\ SourceToken(k.OriginalID).Group = "" => k.Namespaces = <<"default">>

\* the kind-codes that have an entry in the fixed table
MappedCodes == (0..56) \ {28, 29, 30, 32}

UnknownTypeWarning(ch) == <<"unknown type", ch.Name, ch.ID, ch.Type>>

(* C13: MapChannelType is defined for every kind-code and reports "unmapped" exactly for
   the codes without an entry in the fixed table, with type "custom" for them; a channel
   gets one unknown-type warning (naming it, its id and the code) if and only if its code
   is unmapped, once per channel however many providers it yields, and all its providers
   then have type "custom". *)
C13_UnknownTypeWarned ==
    /\ \A code \in TypeCodes :
          /\ MapChannelType(code)[2] <=> code \in MappedCodes
          /\ ~MapChannelType(code)[2] => MapChannelType(code)[1] = "custom"
    /\ \A e \in Exporters : \A idx \in 1..Len(db.channels) :
          LET ch == db.channels[idx]
              ps == ProvidersOf(e, ch.ID)
              IsOfCh(w) == w[1] = "unknown type" /\ w[3] = ch.ID
              unmapped == ch.Type \notin MappedCodes
          IN  Converted(e, idx) =>
                /\ CountIn(result[e].Warnings, IsOfCh) = IF unmapped THEN 1 ELSE 0
                /\ unmapped => UnknownTypeWarning(ch) \in Range(result[e].Warnings)
                /\ unmapped => \A j \in 1..Len(ps) : ps[j].Type = "custom"

C13_Witness ==
    \E e \in Exporters :
        /\ Converted(e, 1)
        /\ db.channels[1].Type = 28
        /\ Len(result[e].Data.Providers) = 2
        /\ result[e].Data.Providers[2].Type = "custom"
        /\ result[e].Warnings = << <<"unknown type", "acme", 1, 28>> >>

----------------------------------------------------------------------------
(* Vocabulary of the properties about the phases of a pass *)

\* the calls of these operations recorded in a fetch log
CallsOf(log, ops) == { i \in 1..Len(log) : log[i].op \in ops }

\* the fetch logs of e: of its completed passes and of the running one
LogsOf(e) == { returns[e][n].log : n \in 1..Len(returns[e]) } \cup {fetchLog[e]}

AbilityFetch == {"GetAllAbilities"}

UserFetches == {"GetUsersWithTokens", "GetTokensByUserID"}

(* C14: with include-abilities off, no pass fetches the abilities, no pass fails with the
   abilities error, and the result of a successful Export holds no binding, whatever the
   abilities table contains. *)
C14_NoAbilitiesWhenOff ==
    \A e \in Exporters : ~config[e].IncludeAbilities =>
        /\ \A log \in LogsOf(e) : CallsOf(log, AbilityFetch) = {}
        /\ result[e].Data.Bindings = <<>>
        /\ \A n \in 1..Len(returns[e]) :
              LET r == returns[e][n]
              IN  /\ r.err # PhaseError("GetAllAbilities")
                  /\ r.err = "" => r.seen[1].Data.Bindings = <<>>

C14_Witness ==
    \E e \in Exporters :
        /\ ~config[e].IncludeAbilities
        /\ Len(db.abilities) = 2
        /\ Len(returns[e]) = 1
        /\ returns[e][1].err = ""
        /\ Len(returns[e][1].seen[1].Data.Keys) = 2
        /\ returns[e][1].seen[1].Data.Bindings = <<>>

PhaseBSteps == {"exportUsersAndTokens", "userLoop", "getTokens", "tokenLoop"}

Succeeded(log, op) == \E i \in 1..Len(log) : log[i].op = op /\ log[i].ok

(* C15: with include-tokens off, no pass fetches the users or any token sub-batch, the
   result of a successful Export holds no master and no key, and such a pass has still
   run Phase A, and Phase C when include-abilities is on; with include-tokens on, every
   pass that gets past Phase A runs Phase B exactly once. *)
C15_TokensOnlyWhenOn ==
    \A e \in Exporters :
        IF ~config[e].IncludeTokens
        THEN /\ \A log \in LogsOf(e) : CallsOf(log, UserFetches) = {}
             /\ pc[e] \notin PhaseBSteps
             /\ result[e].Data.Masters = <<>> /\ result[e].Data.Keys = <<>>
             /\ \A n \in 1..Len(returns[e]) :
                   LET r == returns[e][n]
                   IN  r.err = "" =>
                         /\ r.seen[1].Data.Masters = <<>> /\ r.seen[1].Data.Keys = <<>>
                         /\ Succeeded(r.log, "GetAllChannels")
                         /\ config[e].IncludeAbilities => Succeeded(r.log, "GetAllAbilities")
        ELSE /\ \A log \in LogsOf(e) :
                   Cardinality(CallsOf(log, {"GetUsersWithTokens"})) <= 1
             /\ \A n \in 1..Len(returns[e]) :
                   LET r == returns[e][n]
                   IN  Succeeded(r.log, "GetAllChannels") =>
                         Cardinality(CallsOf(r.log, {"GetUsersWithTokens"})) = 1

C15_Witness ==
    \E e \in Exporters :
        /\ ~config[e].IncludeTokens
        /\ config[e].IncludeAbilities
        /\ Len(db.tokens) = 2
        /\ Len(returns[e]) = 1
        /\ returns[e][1].err = ""
        /\ Len(returns[e][1].seen[1].Data.Providers) = 2
        /\ Len(returns[e][1].seen[1].Data.Bindings) = 2
        /\ returns[e][1].seen[1].Data.Masters = <<>>

PhaseASteps == {"exportChannels", "channelLoop", "providerLoop"}

PhaseCSteps == {"exportAbilities", "abilityLoop"}

\* the number of providers a channel yields: one per non-empty line of its key column,
\* one for a non-empty column without such a line, none for the empty column
YieldOf(ch) ==
    IF ch.Key = <<>> THEN 0
    ELSE IF LineCount(ch.Key) = 0 THEN 1 ELSE LineCount(ch.Key)

\* the number of providers one Phase A appends
YieldOfPhaseA ==
    Cardinality({ x \in (1..Len(db.channels)) \X (1..(MaxKeyLen + 1)) :
                    x[2] <= YieldOf(db.channels[x[1]]) })

\* the completed passes of e that got past the fetch of op
PassesPast(e, op) == { n \in 1..Len(returns[e]) : Succeeded(returns[e][n].log, op) }

\* the sub-batch fetches of e, over its completed passes (n > 0) and the running one (0)
SubBatchFetches(e) ==
    { x \in (0..Len(returns[e])) \X (1..(2 + Len(db.users))) :
        LET log == IF x[1] = 0 THEN fetchLog[e] ELSE returns[e][x[1]].log
        IN  x[2] <= Len(log) /\ log[x[2]].op = "GetTokensByUserID" }

\* the running pass of e has appended every provider of every channel
PhaseADone(e) ==
    /\ Succeeded(fetchLog[e], "GetAllChannels")
    /\ Len(result[e].Data.Providers) =
          YieldOfPhaseA * (Cardinality(PassesPast(e, "GetAllChannels")) + 1)

\* the running pass of e has finished Phase B, or skipped it by configuration
PhaseBDone(e) ==
    /\ PhaseADone(e)
    /\ config[e].IncludeTokens =>
          /\ Succeeded(fetchLog[e], "GetUsersWithTokens")
          /\ Len(TokenFetches(fetchLog[e])) = Len(Owners)
          /\ Len(result[e].Data.Masters) = Cardinality(SubBatchFetches(e))

\* the fetch log of e's pass after the step, whether or not the step returns
LogAfter(e) ==
    IF Len(returns'[e]) > Len(returns[e])
    THEN returns'[e][Len(returns'[e])].log
    ELSE fetchLog'[e]

\* the step issues a fetch of one of these operations for e
Issues(e, ops) ==
    /\ pc[e] \notin {"idle", "none"}
    /\ Len(LogAfter(e)) > Len(fetchLog[e])
    /\ LogAfter(e)[Len(LogAfter(e))].op \in ops

C16_PhaseBStep(e) ==
    \/ result'[e].Data.Masters # result[e].Data.Masters
    \/ result'[e].Data.Keys # result[e].Data.Keys
    \/ Issues(e, UserFetches)

C16_PhaseCStep(e) ==
    \/ result'[e].Data.Bindings # result[e].Data.Bindings
    \/ Issues(e, AbilityFetch)

(* C16: within a pass the phases run in the order A, B, C: a step that appends a master
   or a key or issues a user or token fetch happens only after every provider of every
   channel has been appended, and a step that appends a binding or issues the abilities
   fetch happens only after Phase B has finished (or was skipped by configuration);
   a first pass in Phase A holds no master, key or binding, and in Phase B no binding. *)
C16_PhasesInOrder ==
    /\ [][\A e \in Exporters :
            /\ C16_PhaseBStep(e) => (pc[e] \in PhaseBSteps /\ PhaseADone(e))
            /\ C16_PhaseCStep(e) => (pc[e] \in PhaseCSteps /\ PhaseBDone(e))]_vars
    /\ [](\A e \in Exporters :
            /\ pc[e] \in PhaseBSteps => PhaseADone(e)
            /\ pc[e] \in PhaseCSteps => PhaseBDone(e)
            /\ (returns[e] = <<>> /\ pc[e] \in PhaseASteps) =>
                  /\ result[e].Data.Masters = <<>>
                  /\ result[e].Data.Keys = <<>>
                  /\ result[e].Data.Bindings = <<>>
            /\ (returns[e] = <<>> /\ pc[e] \in PhaseBSteps) =>
                  result[e].Data.Bindings = <<>>)

C16_Witness ==
    \E e \in Exporters :
        /\ pc[e] = "abilityLoop"
        /\ Len(returns[e]) = 1
        /\ Len(result[e].Data.Providers) = 4
        /\ Len(result[e].Data.Masters) = 4
        /\ Len(result[e].Data.Keys) = 3
        /\ Len(result[e].Data.Bindings) = 3

----------------------------------------------------------------------------
(* Vocabulary of the properties about the accumulator *)

IsPrefix(a, b) == Len(a) <= Len(b) /\ SubSeq(b, 1, Len(a)) = a

\* every list of r is a prefix of the same list of q
GrowsTo(r, q) ==
    /\ IsPrefix(r.Warnings, q.Warnings)
    /\ IsPrefix(r.Data.Providers, q.Data.Providers)
    /\ IsPrefix(r.Data.Masters, q.Data.Masters)
    /\ IsPrefix(r.Data.Keys, q.Data.Keys)
    /\ IsPrefix(r.Data.Bindings, q.Data.Bindings)

PositionIn(seq, P(_)) == CHOOSE i \in 1..Len(seq) : P(seq[i])

ChannelRank(id) == LET Is(c) == c.ID = id IN PositionIn(db.channels, Is)

UserRank(id) == LET Is(u) == u.ID = id IN PositionIn(db.users, Is)

TokenRank(id) == LET Is(t) == t.ID = id IN PositionIn(db.tokens, Is)

\* where in the pass a warning is emitted: Phase A by channel, then Phase B by user
WarningRank(w) ==
    IF w[1] = "failed to get tokens" THEN Len(db.channels) + UserRank(w[3])
    ELSE ChannelRank(w[3])

NonDecreasing(seq, F(_)) == \A i, j \in 1..Len(seq) : i < j => F(seq[i]) <= F(seq[j])

\* the lists of r follow the order in which one pass processes the source
InProcessingOrder(r) ==
    LET ProviderRank(p) == ChannelRank(p.OriginalID) * (MaxKeyLen + 2) + p.MultiKeyIndex
        MasterRank(m) == UserRank(m.SourceUserID)
        KeyRank(k) == UserRank(SourceToken(k.OriginalID).UserID) * (Len(db.tokens) + 1)
                        + TokenRank(k.OriginalID)
    IN  /\ NonDecreasing(r.Warnings, WarningRank)
        /\ \A i, j \in 1..Len(r.Warnings) : i # j => r.Warnings[i] # r.Warnings[j]
        /\ NonDecreasing(r.Data.Providers, ProviderRank)
        /\ \A i, j \in 1..Len(r.Data.Masters) :
              i < j => MasterRank(r.Data.Masters[i]) < MasterRank(r.Data.Masters[j])
        /\ \A i, j \in 1..Len(r.Data.Keys) :
              i < j => KeyRank(r.Data.Keys[i]) < KeyRank(r.Data.Keys[j])
        /\ \A i \in 1..Len(r.Data.Bindings) :
              /\ r.Data.Bindings[i].Namespace = db.abilities[i].Group
              /\ r.Data.Bindings[i].Model = db.abilities[i].Model

\* the step in which e's Export returns without error
ReturnsOk(e) ==
    /\ Len(returns'[e]) = Len(returns[e]) + 1
    /\ returns'[e][Len(returns'[e])].err = ""

(* C17: every step of a pass leaves the warning list and the four collections as they
   are or appends at their end; a successful Export returns the accumulator as it stands,
   so it holds every warning of the pass once, in emission order, and every collection in
   processing order; what was returned stays a prefix of the accumulator. *)
C17_AppendOnly ==
    /\ [][\A e \in Exporters :
            /\ GrowsTo(result[e], result'[e])
            /\ ReturnsOk(e) =>
                  /\ returns'[e][Len(returns'[e])].seen = <<result[e]>>
                  /\ result'[e] = result[e]]_vars
    /\ [](\A e \in Exporters :
            /\ returns[e] = <<>> => InProcessingOrder(result[e])
            /\ \A n \in 1..Len(returns[e]) :
                  LET r == returns[e][n]
                  IN  r.err = "" =>
                        /\ GrowsTo(r.seen[1], result[e])
                        /\ n = 1 => InProcessingOrder(r.seen[1]))

C17_Witness ==
    \E e \in Exporters :
        /\ Len(returns[e]) = 1
        /\ returns[e][1].err = ""
        /\ Len(returns[e][1].seen[1].Warnings) = 5
        /\ returns[e][1].seen[1].Warnings[1][1] = "unknown type"
        /\ returns[e][1].seen[1].Warnings[4][1] = "failed to get tokens"
        /\ returns[e][1].seen[1].Warnings[5][3] = 2
        /\ Len(returns[e][1].seen[1].Data.Bindings) = 2

(* C18: a result that Export has returned is immutable: whatever happens afterwards on
   the Exporter, a further call of Export included, the returned result holds the
   collections and warnings it held when it was returned. *)
C18_ReturnedResultImmutable ==
    \A e \in Exporters : \A n \in 1..Len(returns[e]) :
        LET r == returns[e][n]
        IN  r.res \in Exporters => result[r.res] = r.seen[1]

----------------------------------------------------------------------------
(* Vocabulary of the properties about masters *)

\* the pass of e has finished Phase B without error
PhaseBSucceeded(e) ==
    \/ pc[e] \in PhaseCSteps
    \/ /\ pc[e] = "idle"
       /\ returns[e] # <<>>
       /\ Succeeded(returns[e][Len(returns[e])].log, "GetUsersWithTokens")

\* the user has a row in the tokens table, soft-deleted or not
HasTokenRow(u) == \E i \in 1..Len(db.tokens) : db.tokens[i].UserID = u.ID

(* C19: when Phase B of an Exporter's first pass has succeeded, the result holds exactly
   one master per user the users-with-tokens fetch returned, in fetch order, with
   name = username, max_child_keys = 10 and global_qps = 3; and in every state every
   master comes from a source user that has at least one row in the tokens table. *)
C19_OneMasterPerOwner ==
    \A e \in Exporters :
        /\ (Len(returns[e]) <= 1 /\ PhaseBSucceeded(e)) =>
              /\ Len(result[e].Data.Masters) = Len(Owners)
              /\ \A i \in 1..Len(Owners) :
                    LET m == result[e].Data.Masters[i]
                    IN  /\ m.SourceUserID = Owners[i].ID
                        /\ m.Name = Owners[i].Username
                        /\ m.MaxChildKeys = 10
                        /\ m.GlobalQPS = 3
        /\ \A j \in 1..Len(result[e].Data.Masters) :
              LET m == result[e].Data.Masters[j]
              IN  \E u \in Range(db.users) :
                    /\ u.ID = m.SourceUserID
                    /\ u.Username = m.Name
                    /\ HasTokenRow(u)

C19_Witness ==
    \E e \in Exporters :
        /\ PhaseBSucceeded(e)
        /\ Len(db.tokens) = 2
        /\ Len(result[e].Data.Masters) = 2
        /\ result[e].Data.Masters[1].Name = "alice"
        /\ result[e].Data.Masters[2].Name = "carol"
        /\ Len(result[e].Data.Keys) = 1

(* C20: for every channel that belongs to more than one group, a successful Export
   emits the channel's groups as bindings, one binding per group of the channel. *)
C20_GroupsBecomeBindings ==
    \A e \in Exporters : \A n \in 1..Len(returns[e]) :
        LET r == returns[e][n]
        IN  r.err = "" =>
              \A idx \in 1..Len(db.channels) :
                  LET groups == SegCount(db.channels[idx].Group)
                  IN  groups > 1 => Len(r.seen[1].Data.Bindings) >= groups

----------------------------------------------------------------------------
(* Vocabulary of the properties about single fields *)

ChannelStatusOf(code) == IF code = 1 THEN "active" ELSE "disabled"

TokenStatusOf(code) ==
    IF code = 1 THEN "active"
    ELSE IF code = 3 THEN "expired"
    ELSE IF code = 4 THEN "exhausted"
    ELSE "disabled"

UserStatusOf(code) == IF code = 1 THEN "active" ELSE "suspended"

(* C21: the three lifecycle mappers are defined for every integer code: channel code 1
   gives active and any other code disabled; token codes 1, 2, 3, 4 give active,
   disabled, expired, exhausted and any other code disabled; user code 1 gives active
   and any other code suspended; providers, keys and masters carry these values. *)
C21_StatusMapped ==
    /\ \A code \in StatusCodes :
          /\ MapChannelStatus(code) = ChannelStatusOf(code)
          /\ MapTokenStatus(code) = TokenStatusOf(code)
          /\ MapUserStatus(code) = UserStatusOf(code)
    /\ \A e \in Exporters :
          /\ \A j \in 1..Len(result[e].Data.Providers) :
                LET p == result[e].Data.Providers[j]
                IN  p.Status = ChannelStatusOf(SourceChannel(p.OriginalID).Status)
          /\ \A j \in 1..Len(result[e].Data.Masters) :
                LET m == result[e].Data.Masters[j]
                IN  m.Status = UserStatusOf(SourceUser(m.SourceUserID).Status)
          /\ \A j \in 1..Len(result[e].Data.Keys) :
                LET k == result[e].Data.Keys[j]
                IN  k.Status = TokenStatusOf(SourceToken(k.OriginalID).Status)

C21_Witness ==
    \E e \in Exporters :
        /\ pc[e] = "idle"
        /\ db.channels[1].Status = 0
        /\ db.users[1].Status = -1
        /\ db.tokens[1].Status = 4
        /\ Len(result[e].Data.Keys) = 1
        /\ result[e].Data.Providers[1].Status = "disabled"
        /\ result[e].Data.Masters[1].Status = "suspended"
        /\ result[e].Data.Keys[1].Status = "exhausted"

Present(p) == p # <<>>

(* C22: every provider's weight is its channel's weight if that is present and > 0,
   otherwise the channel's priority if that is present and > 0, otherwise 1; and its
   priority is the channel's priority if present and > 0, otherwise 0, whichever value
   the weight took. *)
C22_WeightAndPriority ==
    \A e \in Exporters : \A j \in 1..Len(result[e].Data.Providers) :
        LET p == result[e].Data.Providers[j]
            ch == SourceChannel(p.OriginalID)
        IN  /\ p.Weight =
                  IF Present(ch.Weight) /\ ch.Weight[1] > 0 THEN ch.Weight[1]
                  ELSE IF Present(ch.Priority) /\ ch.Priority[1] > 0 THEN ch.Priority[1]
                  ELSE 1
            /\ p.Priority =
                  IF Present(ch.Priority) /\ ch.Priority[1] > 0 THEN ch.Priority[1] ELSE 0

\* the text field is present and not the empty string
Filled(p) == p # <<>> /\ p[1] # ""

\* <<label>> when the condition holds, nothing otherwise
When(cond, label) == IF cond THEN <<label>> ELSE <<>>

\* the labels of the warnings one channel calls for, in the fixed order
WarningLabels(ch) ==
    When(ch.Type \notin MappedCodes, "unknown type")
    \o When(Present(ch.Priority) /\ ch.Priority[1] # 0, "priority")
    \o When(Filled(ch.ModelMapping), "model_mapping")
    \o When(Filled(ch.StatusCodeMapping), "status_code_mapping")
    \o When(Filled(ch.Setting), "custom settings")
    \o When(Filled(ch.ParamOverride), "param_override")
    \o When(Filled(ch.HeaderOverride), "header_override")
    \o When(SegCount(ch.Group) > 1, "multiple groups")

\* the warnings of e's result that name the channel, in result order
WarningsOf(e, ch) ==
    LET Names(w) == w[1] # "failed to get tokens" /\ w[2] = ch.Name /\ w[3] = ch.ID
    IN  SelectSeq(result[e].Warnings, Names)

(* C23: processing a channel appends one warning for each condition that holds and none
   otherwise: priority present and non-zero, model_mapping, status_code_mapping, setting,
   param_override, header_override non-empty, parsed group list longer than one; they
   follow the channel's unknown-type warning, in that fixed order, once per channel
   however many providers it yields, and the channel yields the same providers, one per
   key line, whatever warnings it got. *)
C23_UnmappableFieldWarnings ==
    \A e \in Exporters : \A idx \in 1..Len(db.channels) :
        LET ch == db.channels[idx]
            ws == WarningsOf(e, ch)
            ps == ProvidersOf(e, ch.ID)
        IN  Converted(e, idx) =>
              /\ [i \in 1..Len(ws) |-> ws[i][1]] = WarningLabels(ch)
              /\ Len(ps) = YieldOf(ch)
              /\ \A i \in 1..Len(ps) : ps[i].APIKey = Line(ch.Key, i)

C23_Witness ==
    \E e \in Exporters :
        /\ Converted(e, 1)
        /\ Len(result[e].Data.Providers) = 2
        /\ Len(result[e].Warnings) = 8
        /\ result[e].Warnings[1][1] = "unknown type"
        /\ result[e].Warnings[2] = <<"priority", "acme", 1, MinInt>>
        /\ result[e].Warnings[8][1] = "multiple groups"

----------------------------------------------------------------------------
(* Vocabulary of the properties about Phase B *)

\* the token rows a sub-batch fetch for this user returns, as positions in the table
SubBatch(userID) ==
    { i \in 1..Len(db.tokens) : db.tokens[i].UserID = userID /\ db.tokens[i].DeletedAt = <<>> }

\* the tokens the successful sub-batch fetches of a log returned
FetchedTokens(log) ==
    { x \in (1..Len(log)) \X (1..Len(db.tokens)) :
        /\ log[x[1]].op = "GetTokensByUserID"
        /\ log[x[1]].ok
        /\ x[2] \in SubBatch(log[x[1]].arg) }

LastOf(seq) == seq[Len(seq)]

\* the step of e appends a master / a key
AppendsMaster(e) == Len(result'[e].Data.Masters) > Len(result[e].Data.Masters)

AppendsKey(e) == Len(result'[e].Data.Keys) > Len(result[e].Data.Keys)

\* masters in processing order, every key after its master and keys grouped by master
\* in master order, the keys of one master in sub-batch order
MastersBeforeKeys(r) ==
    LET MasterPos(name) ==
            CHOOSE i \in 1..Len(r.Data.Masters) : r.Data.Masters[i].Name = name
    IN  /\ \A i, j \in 1..Len(r.Data.Masters) :
              i < j => UserRank(r.Data.Masters[i].SourceUserID)
                        < UserRank(r.Data.Masters[j].SourceUserID)
        /\ \A i \in 1..Len(r.Data.Keys) :
              \E m \in 1..Len(r.Data.Masters) :
                  /\ r.Data.Masters[m].Name = r.Data.Keys[i].MasterRef
                  /\ r.Data.Masters[m].SourceUserID = SourceToken(r.Data.Keys[i].OriginalID).UserID
        /\ \A i, j \in 1..Len(r.Data.Keys) :
              i < j =>
                \/ MasterPos(r.Data.Keys[i].MasterRef) < MasterPos(r.Data.Keys[j].MasterRef)
                \/ /\ r.Data.Keys[i].MasterRef = r.Data.Keys[j].MasterRef
                   /\ TokenRank(r.Data.Keys[i].OriginalID) < TokenRank(r.Data.Keys[j].OriginalID)

(* C24: in Phase B a user's master is appended before that user's sub-batch is fetched
   and before any of that user's keys is appended; so masters follow the order of the
   users, the keys of an earlier user precede the keys of a later one, and the keys of a
   pass are the tokens of its successfully fetched sub-batches, one key per token in
   sub-batch order. *)
C24_MasterBeforeKeys ==
    /\ [][\A e \in Exporters :
            /\ Issues(e, {"GetTokensByUserID"}) =>
                  /\ ~AppendsMaster(e)
                  /\ result[e].Data.Masters # <<>>
                  /\ LastOf(result[e].Data.Masters).SourceUserID = LastOf(LogAfter(e)).arg
                  /\ \A i \in 1..Len(TokenFetches(fetchLog[e])) :
                        TokenFetches(fetchLog[e])[i].arg # LastOf(LogAfter(e)).arg
            /\ AppendsKey(e) =>
                  LET k == LastOf(result'[e].Data.Keys)
                      m == LastOf(result[e].Data.Masters)
                      f == LastOf(TokenFetches(fetchLog[e]))
                  IN  /\ result'[e].Data.Keys = Append(result[e].Data.Keys, k)
                      /\ ~AppendsMaster(e)
                      /\ k.MasterRef = m.Name
                      /\ SourceToken(k.OriginalID).UserID = m.SourceUserID
                      /\ f.ok /\ f.arg = m.SourceUserID]_vars
    /\ [](\A e \in Exporters :
            /\ returns[e] = <<>> =>
                  /\ MastersBeforeKeys(result[e])
                  /\ pc[e] \notin {"tokenLoop"} =>
                        Len(result[e].Data.Keys) = Cardinality(FetchedTokens(fetchLog[e]))
            /\ (returns[e] # <<>> /\ returns[e][1].seen # <<>>) =>
                  /\ MastersBeforeKeys(returns[e][1].seen[1])
                  /\ Len(returns[e][1].seen[1].Data.Keys)
                        = Cardinality(FetchedTokens(returns[e][1].log)))

C24_Witness ==
    \E e \in Exporters :
        /\ Len(returns[e]) = 1
        /\ returns[e][1].err = ""
        /\ Len(TokenFetches(returns[e][1].log)) = 2
        /\ Len(returns[e][1].seen[1].Data.Keys) = 2
        /\ returns[e][1].seen[1].Data.Keys[1].MasterRef = "alice"
        /\ returns[e][1].seen[1].Data.Keys[2].MasterRef = "bob"
        /\ returns[e][1].seen[1].Data.Masters[2].Name = "bob"

----------------------------------------------------------------------------
(* Vocabulary of the properties about Phase C *)

\* the last n elements of a list
Tail_n(seq, n) == SubSeq(seq, Len(seq) - n + 1, Len(seq))

\* the binding that stands for an ability
BindingFor(ab) ==
    [Namespace |-> ab.Group, RouteGroup |-> ab.Group, Model |-> ab.Model,
     Status |-> IF ab.Enabled = TRUE THEN "active" ELSE "disabled"]

(* C25: with include-abilities on, a pass whose abilities fetch succeeded has appended
   exactly one binding per ability, in fetch order, with namespace = route_group = the
   ability's group, the model copied and status active for an enabled ability and
   disabled otherwise; and no step of Phase C appends a warning. *)
C25_OneBindingPerAbility ==
    /\ [][\A e \in Exporters :
            pc[e] \in PhaseCSteps => result'[e].Warnings = result[e].Warnings]_vars
    /\ [](\A e \in Exporters : \A n \in 1..Len(returns[e]) :
            LET r == returns[e][n]
                earlier == { m \in 1..n : Succeeded(returns[e][m].log, "GetAllAbilities") }
            IN  (r.err = "" /\ config[e].IncludeAbilities) =>
                  LET bs == r.seen[1].Data.Bindings
                  IN  /\ Succeeded(r.log, "GetAllAbilities")
                      /\ Len(bs) = Len(db.abilities) * Cardinality(earlier)
                      /\ Tail_n(bs, Len(db.abilities))
                            = [i \in 1..Len(db.abilities) |-> BindingFor(db.abilities[i])])

C25_Witness ==
    \E e \in Exporters :
        /\ Len(returns[e]) = 1
        /\ returns[e][1].err = ""
        /\ Len(returns[e][1].seen[1].Warnings) = 4
        /\ Len(returns[e][1].seen[1].Data.Bindings) = 2
        /\ returns[e][1].seen[1].Data.Bindings[1].Status = "active"
        /\ returns[e][1].seen[1].Data.Bindings[2] =
              [Namespace |-> "vip", RouteGroup |-> "vip", Model |-> "m", Status |-> "disabled"]

----------------------------------------------------------------------------
(* Vocabulary of the properties about two Exporters *)

\* everything the model holds for one Exporter
StateOf(e) == <<config[e], result[e], pc[e], frame[e], fetchLog[e], returns[e]>>

\* what a pass run alone returns, by its configuration and the outcomes of its fetches
AloneReturns(cfg, r) ==
    IF r.err # "" THEN r.res = "nil" /\ r.seen = <<>>
    ELSE LET d == r.seen[1].Data
         IN  /\ Len(d.Providers) = YieldOfPhaseA
             /\ Len(d.Masters) = IF cfg.IncludeTokens THEN Len(Owners) ELSE 0
             /\ Len(d.Keys) = Cardinality(FetchedTokens(r.log))
             /\ Len(d.Bindings) = IF cfg.IncludeAbilities THEN Len(db.abilities) ELSE 0
             /\ InProcessingOrder(r.seen[1])

(* C26: two passes on two distinct Exporters, their steps interleaved in any order over
   the same unchanged source, do not affect each other: a step of one changes nothing
   of the other and nothing of the source, each returns its own accumulator, and each
   returns what it returns when run alone: passes of equal configuration and equal
   fetch outcomes return equal results up to source.exported_at. *)
C26_PassesIndependent ==
    /\ [][/\ db' = db
          /\ \A e1, e2 \in Exporters :
                (e1 # e2 /\ StateOf(e1)' # StateOf(e1)) => StateOf(e2)' = StateOf(e2)]_vars
    /\ [](\A e1, e2 \in Exporters :
            \A i \in 1..Len(returns[e1]) : \A j \in 1..Len(returns[e2]) :
                LET r1 == returns[e1][i]
                    r2 == returns[e2][j]
                IN  /\ AloneReturns(config[e1], r1)
                    /\ r1.err = "" => r1.res = e1 /\ r1.seen = <<result[e1]>>
                    /\ (config[e1] = config[e2] /\ r1.log = r2.log) =>
                          /\ r1.err = r2.err
                          /\ r1.err = "" => Content(r1.seen[1]) = Content(r2.seen[1]))

C26_Witness ==
    /\ pc["e1"] = "idle" /\ pc["e2"] = "tokenLoop"
    /\ Len(returns["e1"]) = 1
    /\ returns["e1"][1].err = ""
    /\ Len(result["e1"].Data.Keys) = 1
    /\ Len(result["e1"].Data.Bindings) = 1
    /\ Len(result["e2"].Data.Providers) = 2
    /\ result["e2"].Data.Keys = <<>>
    /\ result["e1"].Source.ExportedAt # result["e2"].Source.ExportedAt

----------------------------------------------------------------------------
(* Vocabulary of the properties about termination *)

Running(e) == pc[e] \notin {"idle", "none"}

(* C27: given that every repository call returns and every batch is finite, every
   Export pass terminates, with exactly one of two outcomes: a result and no error, or
   an error and no result; a pass none of whose batch fetches (channels, users,
   abilities) failed ends with the result, whatever warnings it collected and whichever
   token sub-batches failed. *)
C27_PassTerminates ==
    /\ \A e \in Exporters : Running(e) ~> (pc[e] = "idle" /\ returns[e] # <<>>)
    /\ [](\A e \in Exporters : \A n \in 1..Len(returns[e]) :
            LET r == returns[e][n]
            IN  /\ \/ r.res = e /\ r.err = "" /\ r.seen # <<>>
                   \/ r.res = "nil" /\ r.err # "" /\ r.seen = <<>>
                /\ FailedIn(r.log, PrimaryFetches) = {} => (r.res = e /\ r.err = ""))

C27_Witness ==
    \E e \in Exporters :
        /\ pc[e] = "idle"
        /\ Len(returns[e]) = 1
        /\ returns[e][1].res = e
        /\ returns[e][1].err = ""
        /\ FailedIn(returns[e][1].log, {"GetTokensByUserID"}) = {3}
        /\ \E i \in 1..Len(result[e].Warnings) : result[e].Warnings[i][1] = "unknown type"
        /\ \E i \in 1..Len(result[e].Warnings) : result[e].Warnings[i][1] = "priority"
        /\ Len(result[e].Data.Keys) = 1

----------------------------------------------------------------------------
(* Vocabulary of the properties about the providers of one channel *)

Blank == {" ", "\n", "\t", "\r"}

(* C28: every provider of every result has a non-empty api_key: it is a trimmed
   non-empty line of its channel's key column or, when the column has no such line, the
   raw column, which is then itself non-empty. *)
C28_ApiKeyNonEmpty ==
    \A e \in Exporters : \A j \in 1..Len(result[e].Data.Providers) :
        LET p == result[e].Data.Providers[j]
            key == SourceChannel(p.OriginalID).Key
        IN  /\ Len(p.APIKey) > 0
            /\ IF LineCount(key) >= 1
               THEN /\ \E i \in 1..LineCount(key) : p.APIKey = Line(key, i)
                    /\ p.APIKey[1] \notin Blank
                    /\ p.APIKey[Len(p.APIKey)] \notin Blank
                    /\ \A i \in 1..Len(p.APIKey) : p.APIKey[i] # "\n"
               ELSE p.APIKey = key /\ key # <<>>

C28_Witness ==
    \E e \in Exporters :
        /\ db.channels[1].Key = <<" ", "\n", " ">>
        /\ Len(result[e].Data.Providers) = 1
        /\ result[e].Data.Providers[1].APIKey = <<" ", "\n", " ">>
        /\ ~result[e].Data.Providers[1].IsMultiKey

(* C29: when the names of the source channels are pairwise distinct, the names of the
   providers of a result are pairwise distinct. *)
C29_ProviderNamesDistinct ==
    \A e \in Exporters :
        (\A i, j \in 1..Len(db.channels) :
            i # j => db.channels[i].Name # db.channels[j].Name)
        => \A i, j \in 1..Len(result[e].Data.Providers) :
              i # j => result[e].Data.Providers[i].Name # result[e].Data.Providers[j].Name

\* a provider without the three fields that tell the providers of one channel apart
SharedFields(p) ==
    [OriginalID |-> p.OriginalID, Type |-> p.Type, Status |-> p.Status,
     BaseURL |-> p.BaseURL, Models |-> p.Models, PrimaryGroup |-> p.PrimaryGroup,
     AllGroups |-> p.AllGroups, Weight |-> p.Weight, Priority |-> p.Priority,
     AutoBan |-> p.AutoBan, IsMultiKey |-> p.IsMultiKey, OriginalName |-> p.OriginalName,
     Original |-> p.Original]

(* C30: the providers derived from one channel are contiguous in the providers list of
   a pass and agree on original_id, type, status, base_url, models, primary_group,
   all_groups, weight, priority, auto_ban, is_multi_key and the JSON snapshot of the
   channel, which is the whole source channel; name and multi_key_index tell them
   apart. *)
C30_SiblingsAgree ==
    \A e \in Exporters :
        LET ps == result[e].Data.Providers
        IN  \A i, j \in 1..Len(ps) :
              (i < j /\ ps[i].OriginalID = ps[j].OriginalID) =>
                /\ \A k \in i..j : ps[k].OriginalID = ps[i].OriginalID
                /\ SharedFields(ps[i]) = SharedFields(ps[j])
                /\ ps[i].Original = <<"json", SourceChannel(ps[i].OriginalID)>>
                /\ ps[i].Name # ps[j].Name
                /\ ps[i].MultiKeyIndex # ps[j].MultiKeyIndex

C30_Witness ==
    \E e \in Exporters :
        /\ Len(result[e].Data.Providers) = 4
        /\ result[e].Data.Providers[2].OriginalID = 1
        /\ result[e].Data.Providers[3].OriginalID = 2
        /\ result[e].Data.Providers[4].Name = "beta-2"
        /\ result[e].Data.Providers[4].APIKey = <<"b">>

====
